---------------------------- MODULE Spec2Model ----------------------------
(***************************************************************************)
(* Annotation interaction and history engine of the essay-annotation tool. *)
(*                                                                         *)
(* State: the React state of useGradingSession (students, current student  *)
(* and page, active tool, history map, historyRefs) and of                 *)
(* useAnnotationCanvas (interaction mode, drag snapshot, focus, selection).*)
(* One action per event handler.  A handler runs to completion against the *)
(* state of the last render (its closure); the functional state updates it *)
(* queues are applied in order when it returns.  Each handler is written   *)
(* as an operator from the world before the event to the world after it.   *)
(*                                                                         *)
(* Geometry: the page is [0,1] x [0,1]; the model counts in hundredths, so *)
(* 0.01 is 1 and 1.0 is One.                                               *)
(***************************************************************************)
EXTENDS Integers, Sequences, FiniteSets, TLC

(***************************************************************************)
(* Bounds of the model.                                                    *)
(***************************************************************************)
\* ids the id source hands out in one run (annotations ever created)
MaxIds == 2
\* deepest past stack a run builds
MaxHist == 3
\* most rectangles one annotation is extended to
MaxRects == 2
\* events one run handles
MaxSteps == 6

(***************************************************************************)
(* Program constants, in hundredths of the page.                           *)
(***************************************************************************)
One == 100
MinSize == 1
DragThreshold == 1
DefaultWidth == 6
DefaultHeight == 2
DefaultOffsetX == 3
DefaultOffsetY == 1
DotThreshold == 1

(***************************************************************************)
(* Values.                                                                 *)
(***************************************************************************)
\* no annotation id / no rect index (the source's undefined and null)
NoId == 0
NoIndex == 0
NoHandle == "none"

Min2(a, b) == IF a < b THEN a ELSE b
Max2(a, b) == IF a > b THEN a ELSE b
Abs(a) == IF a < 0 THEN -a ELSE a

clamp(val, min, max) == Max2(min, Min2(max, val))

Point(px, py) == [x |-> px, y |-> py]
Rect(rx, ry, rw, rh) == [x |-> rx, y |-> ry, width |-> rw, height |-> rh]

\* pointer positions the events are drawn from (already page-relative)
Points == {Point(10, 10), Point(50, 40)}

\* the session under grading: one student with two scanned pages
SessionId == "session"
InitialStudents ==
    << [id |-> "s1", images |-> <<"page0", "page1">>, annotations |-> <<>>,
        scores |-> [content |-> 3, communicative |-> 2, organisation |-> 1,
                    language |-> 0]] >>

ZeroScores == [content |-> 0, communicative |-> 0, organisation |-> 0, language |-> 0]
\* graderName is set on the setup screen and is empty by default
GraderName == ""
\* new Date().toLocaleDateString('en-GB', ...) on the day of the session
Today == "4 Nov 2026"
NoStamp == [scores |-> ZeroScores, total |-> 0, grader |-> "", date |-> ""]

\* the text values an editor keystroke can leave in the comment field
Texts == {"t"}
\* the score buttons the model presses: a category and its new value
ScoreCategories == {"content"}
ScoreVals == {5}

StampAnn(id, page, pt, scores) ==
    [id |-> id, mode |-> "stamper", pageIndex |-> page, type |-> "stamp",
     x |-> pt.x, y |-> pt.y, rects |-> <<>>, text |-> "", number |-> 0,
     isElaboration |-> FALSE,
     stampData |-> [scores |-> scores,
                    total |-> scores.content + scores.communicative
                              + scores.organisation + scores.language,
                    grader |-> IF GraderName = "" THEN "Teacher" ELSE GraderName,
                    date |-> Today]]

RectAnn(id, mode, page, r) ==
    [id |-> id, mode |-> mode, pageIndex |-> page, type |-> "rect",
     x |-> 0, y |-> 0, rects |-> <<r>>, text |-> "", number |-> 0,
     isElaboration |-> FALSE, stampData |-> NoStamp]

DotAnn(id, mode, page, pt, num, elab) ==
    [id |-> id, mode |-> mode, pageIndex |-> page, type |-> "dot",
     x |-> pt.x, y |-> pt.y, rects |-> <<>>, text |-> "", number |-> num,
     isElaboration |-> elab, stampData |-> NoStamp]


(***************************************************************************)
(* State.                                                                  *)
(***************************************************************************)
VARIABLES
    \* useGradingSession
    sessionId, students, currentStudentIndex, currentImageIndex, activeMode,
    history, historyRefs,
    \* useAnnotationCanvas
    interactionMode, dragSnapshot, creationDragCurrent, editingAnnotationId,
    newAnnotationId, selectedIds, selectionBox,
    \* the id source: Date.now() + Math.random(), modelled as a counter
    nextId,
    \* App: the screen shown, and the sessions saved in the browser's storage
    step, savedSessions,
    \* useGradingSession: the enhanced page images; jobs holds the calls of the
    \* enhance effect that have not returned, processedStore the IndexedDB store
    enhanceMode, processedCache, isProcessingImg, jobs, processedStore,
    \* events handled so far in the run
    steps,
    \* history: the pointer gesture in progress, as the user started it
    gesture,
    \* history: the run of mutations, undos and redos in progress
    law,
    \* the call of a pure function under study: its arguments and its result
    calc,
    \* history: the subject's scores at the creation of each stamp, by stamp id
    stamped,
    \* history: the page key of the last text update while the idle timer runs
    typed

progVars == << sessionId, students, currentStudentIndex, currentImageIndex,
               activeMode, history, historyRefs, interactionMode, dragSnapshot,
               creationDragCurrent, editingAnnotationId, newAnnotationId,
               selectedIds, selectionBox, nextId, step, savedSessions,
               enhanceMode, processedCache, isProcessingImg, jobs,
               processedStore >>

\* the world a handler's closure sees
World ==
    [sessionId |-> sessionId, students |-> students,
     currentStudentIndex |-> currentStudentIndex,
     currentImageIndex |-> currentImageIndex, activeMode |-> activeMode,
     history |-> history, historyRefs |-> historyRefs,
     interactionMode |-> interactionMode, dragSnapshot |-> dragSnapshot,
     creationDragCurrent |-> creationDragCurrent,
     editingAnnotationId |-> editingAnnotationId,
     newAnnotationId |-> newAnnotationId, selectedIds |-> selectedIds,
     selectionBox |-> selectionBox, nextId |-> nextId,
     step |-> step, savedSessions |-> savedSessions,
     enhanceMode |-> enhanceMode, processedCache |-> processedCache,
     isProcessingImg |-> isProcessingImg, jobs |-> jobs,
     processedStore |-> processedStore]

\* the state after a handler returned and React re-rendered
Commit(w) ==
    /\ sessionId' = w.sessionId
    /\ students' = w.students
    /\ currentStudentIndex' = w.currentStudentIndex
    /\ currentImageIndex' = w.currentImageIndex
    /\ activeMode' = w.activeMode
    /\ history' = w.history
    /\ historyRefs' = w.historyRefs
    /\ interactionMode' = w.interactionMode
    /\ dragSnapshot' = w.dragSnapshot
    /\ creationDragCurrent' = w.creationDragCurrent
    /\ editingAnnotationId' = w.editingAnnotationId
    /\ newAnnotationId' = w.newAnnotationId
    /\ selectedIds' = w.selectedIds
    /\ selectionBox' = w.selectionBox
    /\ nextId' = w.nextId
    /\ step' = w.step
    /\ savedSessions' = w.savedSessions
    /\ enhanceMode' = w.enhanceMode
    /\ processedCache' = w.processedCache
    /\ isProcessingImg' = w.isProcessingImg
    /\ jobs' = w.jobs
    /\ processedStore' = w.processedStore

(***************************************************************************)
(* useGradingSession: current student, history key, history map.           *)
(***************************************************************************)
\* an optional value is the empty sequence or a one-element sequence
None == <<>>
Some(v) == <<v>>

HasCurrentStudent(w) == w.currentStudentIndex \in 1..Len(w.students)
CurrentStudent(w) == w.students[w.currentStudentIndex]

\* `${currentStudent.id}-${currentImageIndex}`
HistoryKey(w) == << CurrentStudent(w).id, w.currentImageIndex >>

EmptyEntry == [past |-> <<>>, future |-> <<>>]
\* prev[historyKey] || { past: [], future: [] }
EntryOf(h, k) == IF k \in DOMAIN h THEN h[k] ELSE EmptyEntry
\* { ...prev, [historyKey]: entry }
PutEntry(h, k, e) == [kk \in (DOMAIN h) \cup {k} |-> IF kk = k THEN e ELSE h[kk]]

\* annotations.filter(a => a.pageIndex === page)
PageAnns(anns, page) == SelectSeq(anns, LAMBDA a: a.pageIndex = page)
OtherPageAnns(anns, page) == SelectSeq(anns, LAMBDA a: a.pageIndex # page)
CurrentPageAnns(w) == PageAnns(CurrentStudent(w).annotations, w.currentImageIndex)

\* JSON.parse(JSON.stringify(list)): a fresh list of fresh objects holding the
\* same own properties; every field of an annotation is a finite number, a
\* string, a boolean, or an array or object of these, which JSON keeps
JsonCopyRect(r) == [x |-> r.x, y |-> r.y, width |-> r.width, height |-> r.height]
JsonCopyAnn(a) ==
    [id |-> a.id, mode |-> a.mode, pageIndex |-> a.pageIndex, type |-> a.type,
     x |-> a.x, y |-> a.y,
     rects |-> [i \in 1..Len(a.rects) |-> JsonCopyRect(a.rects[i])],
     text |-> a.text, number |-> a.number, isElaboration |-> a.isElaboration,
     stampData |-> a.stampData]
JsonCopy(anns) == [i \in 1..Len(anns) |-> JsonCopyAnn(anns[i])]

\* setHistory(prev => ...) of recordHistory and of handleMouseUp
PushedEntry(entry, snapshot) == [past |-> Append(entry.past, snapshot), future |-> <<>>]
PushSnapshot(h, k, snapshot) == PutEntry(h, k, PushedEntry(EntryOf(h, k), snapshot))

\* recordHistory(): the snapshot is the page list of the closure
recordHistory(w, h) ==
    IF ~HasCurrentStudent(w) THEN h
    ELSE PushSnapshot(h, HistoryKey(w), JsonCopy(CurrentPageAnns(w)))

\* setStudents(prev => prev.map((s, idx) => idx === currentStudentIndex
\*     ? { ...s, annotations: anns } : s)), anns computed from s.annotations
CurrentAnnotations(w) ==
    IF HasCurrentStudent(w) THEN CurrentStudent(w).annotations ELSE <<>>
SetCurrentAnnotations(w, anns) ==
    [i \in 1..Len(w.students) |->
        IF i = w.currentStudentIndex
        THEN [w.students[i] EXCEPT !.annotations = anns]
        ELSE w.students[i]]

\* addAnnotation(ann): recordHistory(), then append to the current student
addAnnotation(w, ann) ==
    [w EXCEPT !.history = recordHistory(w, w.history),
              !.students = SetCurrentAnnotations(w,
                                Append(CurrentAnnotations(w), ann))]

(***************************************************************************)
(* useAnnotationCanvas: the pointer handlers.                              *)
(***************************************************************************)
\* DragSnapshot; an absent optional field is None, NoId, NoIndex or NoHandle
DragSnapshot(startPoint, initialRect, initialDot, annotationId, rectIndex, handle, panning, initialMultiPositions) ==
    [startPoint |-> startPoint, initialRect |-> initialRect,
     initialDot |-> initialDot, annotationId |-> annotationId,
     rectIndex |-> rectIndex, handle |-> handle,
     \* clientStart and initialScroll, which only a panning snapshot holds
     panning |-> panning,
     initialMultiPositions |-> initialMultiPositions]

StartOnly(pt) == DragSnapshot(pt, None, None, NoId, NoIndex, NoHandle, FALSE, None)
PanSnapshot == DragSnapshot(Point(0, 0), None, None, NoId, NoIndex, NoHandle, TRUE, None)

\* annotations.find(a => a.id === id): the first match, as an index (0: none)
FindIndex(anns, id) ==
    IF \E i \in 1..Len(anns): anns[i].id = id
    THEN CHOOSE i \in 1..Len(anns):
            /\ anns[i].id = id
            /\ \A j \in 1..(i - 1): anns[j].id # id
    ELSE 0

\* ann.rects?.[rectIndex]; rectIndex counts from 1 here, from 0 in the source
RectAt(ann, rectIndex) ==
    IF rectIndex \in 1..Len(ann.rects) THEN Some(ann.rects[rectIndex]) ELSE None

\* a snapshot map that holds every annotation of the subject, selected or not
MultiPositionsAll(anns, selection) ==
    [id \in {anns[i].id : i \in 1..Len(anns)} |->
        LET a == anns[FindIndex(anns, id)]
        IN [dot |-> Point(a.x, a.y), rects |-> a.rects]]

\* initialMultiPositions of a select-mode pointer-down: the geometry of every
\* annotation of the current student whose id is in the selection
MultiPositions(anns, selection) ==
    LET ids == {anns[i].id : i \in 1..Len(anns)} \cap selection
        \* forEach assigns in list order: the last annotation with the id wins
        last(id) == CHOOSE i \in 1..Len(anns):
                        /\ anns[i].id = id
                        /\ \A j \in (i + 1)..Len(anns): anns[j].id # id
    IN [id \in ids |->
            [dot |-> Point(anns[last(id)].x, anns[last(id)].y),
             rects |-> anns[last(id)].rects]]

\* the pointer-down branches, in the order of the source
MouseDownSelect(w, e) ==
    IF e.annotationId # NoId
    THEN LET isAlreadySelected == e.annotationId \in w.selectedIds
             newSelection == IF isAlreadySelected THEN w.selectedIds
                             ELSE {e.annotationId}
         IN [w EXCEPT
                !.selectedIds = newSelection,
                !.interactionMode = "moving-multi",
                !.dragSnapshot = Some(DragSnapshot(e.pt, None, None, NoId,
                    NoIndex, NoHandle, FALSE,
                    Some(MultiPositions(CurrentStudent(w).annotations,
                                        newSelection))))]
    ELSE [w EXCEPT !.interactionMode = "selecting",
                   !.dragSnapshot = Some(StartOnly(e.pt)),
                   !.selectedIds = {}]

MouseDownHandle(w, e) ==
    LET anns == CurrentStudent(w).annotations
        i == FindIndex(anns, e.annotationId)
        initialRect == IF i = 0 THEN None ELSE RectAt(anns[i], e.rectIndex)
    IN IF initialRect # None
       THEN [w EXCEPT !.interactionMode = "resizing",
                      !.dragSnapshot = Some(DragSnapshot(e.pt, initialRect, None,
                            e.annotationId, e.rectIndex, e.handle, FALSE, None))]
       ELSE w

\* a pointer-down on an annotation that does not read the extend modifier
MouseDownAnnotationNoExtend(w, e) ==
    LET anns == CurrentStudent(w).annotations
        i == FindIndex(anns, e.annotationId)
    IN IF i = 0 THEN w
       ELSE [w EXCEPT
               !.editingAnnotationId = e.annotationId,
               !.interactionMode = "moving",
               !.dragSnapshot =
                   Some(DragSnapshot(e.pt,
                        IF anns[i].type = "rect" THEN RectAt(anns[i], e.rectIndex)
                        ELSE None,
                        IF anns[i].type = "rect" THEN None
                        ELSE Some(Point(anns[i].x, anns[i].y)),
                        e.annotationId, e.rectIndex, NoHandle, FALSE, None))]

MouseDownAnnotation(w, e) ==
    LET anns == CurrentStudent(w).annotations
        i == FindIndex(anns, e.annotationId)
    IN IF i = 0 THEN w
       ELSE IF e.shiftKey /\ anns[i].type = "rect"
       THEN [w EXCEPT !.interactionMode = "creating",
                      !.editingAnnotationId = e.annotationId,
                      !.dragSnapshot = Some(StartOnly(e.pt))]
       ELSE LET initialRect == IF anns[i].type = "rect" /\ e.rectIndex # NoIndex
                               THEN RectAt(anns[i], e.rectIndex) ELSE None
                initialDot == IF ~(anns[i].type = "rect" /\ e.rectIndex # NoIndex)
                                 /\ anns[i].type \in {"dot", "stamp"}
                              THEN Some(Point(anns[i].x, anns[i].y)) ELSE None
            IN [w EXCEPT
                  !.editingAnnotationId = e.annotationId,
                  !.interactionMode = "moving",
                  !.dragSnapshot =
                      IF initialRect # None \/ initialDot # None
                      THEN Some(DragSnapshot(e.pt, initialRect, initialDot,
                                e.annotationId, e.rectIndex, NoHandle, FALSE, None))
                      ELSE w.dragSnapshot]

MouseDownCanvas(w, e) ==
    LET anns == CurrentStudent(w).annotations
        i == FindIndex(anns, w.editingAnnotationId)
        keepsFocus == /\ e.shiftKey
                      /\ w.editingAnnotationId # NoId
                      /\ i # 0
                      /\ anns[i].type = "rect"
                      /\ anns[i].pageIndex = w.currentImageIndex
        shouldClearSelection ==
            \/ ~e.shiftKey
            \/ (e.shiftKey /\ w.editingAnnotationId # NoId /\ ~keepsFocus)
    IN [w EXCEPT
          !.editingAnnotationId = IF shouldClearSelection THEN NoId ELSE @,
          !.newAnnotationId = IF shouldClearSelection THEN NoId ELSE @,
          !.interactionMode = "creating",
          !.dragSnapshot = Some(StartOnly(e.pt))]

MouseDownRight(w, e) ==
    [w EXCEPT
        !.editingAnnotationId = IF ~e.shiftKey THEN NoId ELSE @,
        !.newAnnotationId = IF ~e.shiftKey THEN NoId ELSE @,
        !.interactionMode = "none",
        !.dragSnapshot = Some(StartOnly(e.pt))]

\* handleMouseDown(e, annotationId, rectIndex, handle); step is 'grading'
MouseDown(w, e) ==
    IF e.button = 1
    THEN [w EXCEPT !.interactionMode = "panning",
                   !.dragSnapshot = Some(PanSnapshot)]
    ELSE
    LET \* historyRefs.current.dragStartSnapshot, taken in idle only
        w1 == IF w.interactionMode = "none" /\ HasCurrentStudent(w)
              THEN [w EXCEPT !.historyRefs.dragStartSnapshot =
                                Some(JsonCopy(CurrentPageAnns(w)))]
              ELSE w
    IN  IF w.activeMode = "stamper" /\ e.button = 0 /\ e.annotationId = NoId
        THEN [addAnnotation(w1, StampAnn(w.nextId, w.currentImageIndex, e.pt,
                                         CurrentStudent(w).scores))
                EXCEPT !.interactionMode = "none", !.nextId = w.nextId + 1]
        ELSE IF w.activeMode = "select" /\ e.button = 0
        THEN MouseDownSelect(w1, e)
        ELSE IF e.button = 0 /\ e.handle # NoHandle /\ e.annotationId # NoId
                /\ e.rectIndex # NoIndex
        THEN MouseDownHandle(w1, e)
        ELSE IF e.button = 0 /\ e.annotationId # NoId
        THEN MouseDownAnnotation(w1, e)
        ELSE IF e.button = 0
        THEN MouseDownCanvas(w1, e)
        ELSE IF e.button = 2
        THEN MouseDownRight(w1, e)
        ELSE w1

\* newRects[rectIndex] = r on a copy of the list; an index one past the end
\* appends
SetRect(rects, rectIndex, r) ==
    IF rectIndex \in 1..Len(rects) THEN [rects EXCEPT ![rectIndex] = r]
    ELSE Append(rects, r)

\* the rubber-band test with open comparisons: an annotation that only touches
\* the box is left out
InBoxStrict(a, box) ==
    IF a.type \in {"dot", "stamp"}
    THEN /\ a.x > box.x /\ a.x < box.x + box.width
         /\ a.y > box.y /\ a.y < box.y + box.height
    ELSE \E i \in 1..Len(a.rects):
            LET r == a.rects[i]
            IN ~(\/ r.x >= box.x + box.width
                 \/ r.x + r.width <= box.x
                 \/ r.y >= box.y + box.height
                 \/ r.y + r.height <= box.y)

\* the rubber-band test of one annotation against the box
InBox(a, box) ==
    IF a.type \in {"dot", "stamp"}
    THEN /\ a.x >= box.x /\ a.x <= box.x + box.width
         /\ a.y >= box.y /\ a.y <= box.y + box.height
    ELSE \E i \in 1..Len(a.rects):
            LET r == a.rects[i]
            IN ~(\/ r.x > box.x + box.width
                 \/ r.x + r.width < box.x
                 \/ r.y > box.y + box.height
                 \/ r.y + r.height < box.y)

MoveMulti(a, positions, deltaX, deltaY) ==
    IF a.id \notin DOMAIN positions THEN a
    ELSE IF a.type \in {"dot", "stamp"}
    THEN [a EXCEPT !.x = clamp(positions[a.id].dot.x + deltaX, 0, One),
                   !.y = clamp(positions[a.id].dot.y + deltaY, 0, One)]
    ELSE LET rects == positions[a.id].rects
         IN [a EXCEPT !.rects =
                [i \in 1..Len(rects) |->
                    [rects[i] EXCEPT
                        !.x = clamp(rects[i].x + deltaX, 0, One - rects[i].width),
                        !.y = clamp(rects[i].y + deltaY, 0, One - rects[i].height)]]]

\* a single move that applies the delta without keeping the origin on the page
MoveOneUnclamped(a, d, deltaX, deltaY) ==
    IF a.id # d.annotationId THEN a
    ELSE IF a.type \in {"dot", "stamp"} /\ d.initialDot # None
    THEN [a EXCEPT !.x = d.initialDot[1].x + deltaX,
                   !.y = d.initialDot[1].y + deltaY]
    ELSE IF a.type = "rect" /\ d.initialRect # None /\ d.rectIndex # NoIndex
    THEN LET r0 == d.initialRect[1]
             old == IF d.rectIndex \in 1..Len(a.rects) THEN a.rects[d.rectIndex]
                    ELSE Rect(0, 0, 0, 0)
         IN [a EXCEPT !.rects = SetRect(a.rects, d.rectIndex,
                                        [old EXCEPT !.x = r0.x + deltaX,
                                                    !.y = r0.y + deltaY])]
    ELSE a

MoveOne(a, d, deltaX, deltaY) ==
    IF a.id # d.annotationId THEN a
    ELSE IF a.type \in {"dot", "stamp"} /\ d.initialDot # None
    THEN [a EXCEPT !.x = clamp(d.initialDot[1].x + deltaX, 0, One),
                   !.y = clamp(d.initialDot[1].y + deltaY, 0, One)]
    ELSE IF a.type = "rect" /\ d.initialRect # None /\ d.rectIndex # NoIndex
    THEN LET r0 == d.initialRect[1]
             newX == clamp(r0.x + deltaX, 0, One - r0.width)
             newY == clamp(r0.y + deltaY, 0, One - r0.height)
             \* { ...newRects[rectIndex], x: newX, y: newY }; a slot past the
             \* end holds no width and no height (0 here)
             old == IF d.rectIndex \in 1..Len(a.rects) THEN a.rects[d.rectIndex]
                    ELSE Rect(0, 0, 0, 0)
         IN [a EXCEPT !.rects = SetRect(a.rects, d.rectIndex,
                                        [old EXCEPT !.x = newX, !.y = newY])]
    ELSE a

ResizedRect(r0, handle, deltaX, deltaY) ==
    IF handle = "se"
    THEN [r0 EXCEPT !.width = Max2(MinSize, r0.width + deltaX),
                    !.height = Max2(MinSize, r0.height + deltaY)]
    ELSE IF handle = "sw"
    THEN [r0 EXCEPT !.x = r0.x + deltaX,
                    !.width = Max2(MinSize, r0.width - deltaX),
                    !.height = Max2(MinSize, r0.height + deltaY)]
    ELSE IF handle = "ne"
    THEN [r0 EXCEPT !.y = r0.y + deltaY,
                    !.width = Max2(MinSize, r0.width + deltaX),
                    !.height = Max2(MinSize, r0.height - deltaY)]
    ELSE IF handle = "nw"
    THEN [r0 EXCEPT !.x = r0.x + deltaX,
                    !.y = r0.y + deltaY,
                    !.width = Max2(MinSize, r0.width - deltaX),
                    !.height = Max2(MinSize, r0.height - deltaY)]
    ELSE r0

ResizeOne(a, d, deltaX, deltaY) ==
    \* !a.rects: a dot or a stamp carries no rects property
    IF a.id # d.annotationId \/ a.type # "rect" THEN a
    ELSE [a EXCEPT !.rects = SetRect(a.rects, d.rectIndex,
                        ResizedRect(d.initialRect[1], d.handle, deltaX, deltaY))]

\* handleMouseMove(e)
MouseMove(w, pt) ==
    IF w.interactionMode = "panning" /\ w.dragSnapshot # None
       /\ w.dragSnapshot[1].panning
    THEN w  \* only the scroll offsets of the container change
    ELSE IF w.dragSnapshot = None THEN w
    ELSE
    LET d == w.dragSnapshot[1]
        deltaX == pt.x - d.startPoint.x
        deltaY == pt.y - d.startPoint.y
    IN  IF w.interactionMode = "selecting"
        THEN LET box == Rect(Min2(d.startPoint.x, pt.x), Min2(d.startPoint.y, pt.y),
                             Abs(pt.x - d.startPoint.x), Abs(pt.y - d.startPoint.y))
                 anns == CurrentStudent(w).annotations
             IN [w EXCEPT
                    !.selectionBox = Some(box),
                    !.selectedIds =
                        IF HasCurrentStudent(w)
                        THEN {anns[i].id : i \in
                                {j \in 1..Len(anns):
                                    /\ anns[j].pageIndex = w.currentImageIndex
                                    /\ InBox(anns[j], box)}}
                        ELSE @]
        ELSE IF w.interactionMode = "moving-multi" /\ d.initialMultiPositions # None
        THEN [w EXCEPT !.students = SetCurrentAnnotations(w,
                [i \in 1..Len(CurrentAnnotations(w)) |->
                    MoveMulti(CurrentAnnotations(w)[i], d.initialMultiPositions[1],
                              deltaX, deltaY)])]
        ELSE IF w.interactionMode = "moving" /\ d.annotationId # NoId
        THEN [w EXCEPT !.students = SetCurrentAnnotations(w,
                [i \in 1..Len(CurrentAnnotations(w)) |->
                    MoveOne(CurrentAnnotations(w)[i], d, deltaX, deltaY)])]
        ELSE IF w.interactionMode = "resizing" /\ d.initialRect # None
                /\ d.annotationId # NoId /\ d.rectIndex # NoIndex
                /\ d.handle # NoHandle
        THEN [w EXCEPT !.students = SetCurrentAnnotations(w,
                [i \in 1..Len(CurrentAnnotations(w)) |->
                    ResizeOne(CurrentAnnotations(w)[i], d, deltaX, deltaY)])]
        ELSE IF w.interactionMode = "creating"
        THEN [w EXCEPT !.creationDragCurrent = Some(pt)]
        ELSE w

\* a release that puts the default rectangle's top-left corner on the click
CreatedRectTopLeft(startPoint, currentPt) ==
    LET rawWidth == Abs(currentPt.x - startPoint.x)
        rawHeight == Abs(currentPt.y - startPoint.y)
        isDrag == rawWidth > DragThreshold \/ rawHeight > DragThreshold
        width == IF isDrag THEN rawWidth ELSE DefaultWidth
        height == IF isDrag THEN rawHeight ELSE DefaultHeight
        originX == IF isDrag THEN Min2(startPoint.x, currentPt.x)
                   ELSE startPoint.x
        originY == IF isDrag THEN Min2(startPoint.y, currentPt.y)
                   ELSE startPoint.y
    IN Rect(clamp(originX, 0, One - width), clamp(originY, 0, One - height),
            width, height)
\* the rectangle a creating gesture releases
CreatedRect(startPoint, currentPt) ==
    LET rawWidth == Abs(currentPt.x - startPoint.x)
        rawHeight == Abs(currentPt.y - startPoint.y)
        isDrag == rawWidth > DragThreshold \/ rawHeight > DragThreshold
        width == IF isDrag THEN rawWidth ELSE DefaultWidth
        height == IF isDrag THEN rawHeight ELSE DefaultHeight
        originX == IF isDrag THEN Min2(startPoint.x, currentPt.x)
                   ELSE startPoint.x - DefaultOffsetX
        originY == IF isDrag THEN Min2(startPoint.y, currentPt.y)
                   ELSE startPoint.y - DefaultOffsetY
    IN Rect(clamp(originX, 0, One - width), clamp(originY, 0, One - height),
            width, height)

\* the extend branch: append newRect to the focused rect of the current page
AppendRect(a, editingId, page, newRect) ==
    IF a.id = editingId /\ a.type = "rect" /\ a.pageIndex = page
    THEN [a EXCEPT !.rects = Append(a.rects, newRect)]
    ELSE a

MouseUpCreating(w, e) ==
    LET newRect == CreatedRect(w.dragSnapshot[1].startPoint, e.pt)
    IN IF e.shiftKey /\ w.editingAnnotationId # NoId
       THEN [w EXCEPT
               !.students = SetCurrentAnnotations(w,
                   [i \in 1..Len(CurrentAnnotations(w)) |->
                       AppendRect(CurrentAnnotations(w)[i], w.editingAnnotationId,
                                  w.currentImageIndex, newRect)]),
               !.history = recordHistory(w, w.history)]
       ELSE [addAnnotation(w, RectAnn(w.nextId, w.activeMode,
                                      w.currentImageIndex, newRect))
               EXCEPT !.editingAnnotationId = w.nextId,
                      !.newAnnotationId = w.nextId,
                      !.nextId = w.nextId + 1]

\* Math.max(...numbers) over the dots of the active category, 0 when none
MaxDotNumber(anns, mode) ==
    LET numbers == {anns[i].number : i \in
                        {j \in 1..Len(anns): anns[j].mode = mode /\ anns[j].type = "dot"}}
    IN IF numbers = {} THEN 0
       ELSE CHOOSE n \in numbers: \A m \in numbers: m <= n

\* parseInt(a.id): an id is the time of creation in milliseconds followed by a
\* random fraction; the ids of the model are the whole milliseconds
ParseInt(id) == id
\* the dots of the subject that share mode and number with ann, in list order
Siblings(anns, ann) ==
    SelectSeq(anns, LAMBDA a: a.mode = ann.mode /\ a.number = ann.number
                              /\ a.type = "dot")
\* the place of seq[i] after sort((a, b) => parseInt(a.id) - parseInt(b.id)),
\* a stable sort: equal keys keep their list order
SortRank(seq, i) ==
    Cardinality({j \in 1..Len(seq):
        \/ ParseInt(seq[j].id) < ParseInt(seq[i].id)
        \/ ParseInt(seq[j].id) = ParseInt(seq[i].id) /\ j < i}) + 1
SortById(seq) ==
    [k \in 1..Len(seq) |-> seq[CHOOSE i \in 1..Len(seq): SortRank(seq, i) = k]]
\* siblings.findIndex(s => s.id === ann.id): counted from 0, -1 when absent
FindSubIndex(siblings, id) ==
    IF \E k \in 1..Len(siblings): siblings[k].id = id
    THEN (CHOOSE k \in 1..Len(siblings):
            /\ siblings[k].id = id
            /\ \A j \in 1..(k - 1): siblings[j].id # id) - 1
    ELSE 0 - 1
\* the label of a dot: its number, followed by String.fromCharCode(96 +
\* subIndex) when subIndex > 0; suffix holds the character code, 0 for none
DotLabel(anns, ann) ==
    LET subIndex == FindSubIndex(SortById(Siblings(anns, ann)), ann.id)
    IN [number |-> ann.number,
        suffix |-> IF ann.number # 0 /\ subIndex > 0 THEN 96 + subIndex ELSE 0]
\* the label drawn on the page of the editor
ScreenLabel(w, ann) == DotLabel(CurrentStudent(w).annotations, ann)
\* the label drawn by generatePageCanvas on an exported page
ExportLabel(student, ann) == DotLabel(student.annotations, ann)

\* a right click that numbers every dot max + 1, group modifier or not
MouseUpRightClickNoGroup(w, e) ==
    LET startPoint == w.dragSnapshot[1].startPoint
        dx == e.pt.x - startPoint.x
        dy == e.pt.y - startPoint.y
        maxNum == MaxDotNumber(CurrentStudent(w).annotations, w.activeMode)
        isElaboration == e.ctrlKey \/ e.shiftKey
    IN IF dx * dx + dy * dy < DotThreshold * DotThreshold
       THEN [addAnnotation(w, DotAnn(w.nextId, w.activeMode, w.currentImageIndex,
                                     e.pt, maxNum + 1, isElaboration))
               EXCEPT !.nextId = w.nextId + 1]
       ELSE w

MouseUpRightClick(w, e) ==
    LET startPoint == w.dragSnapshot[1].startPoint
        dx == e.pt.x - startPoint.x
        dy == e.pt.y - startPoint.y
        maxNum == MaxDotNumber(CurrentStudent(w).annotations, w.activeMode)
        nextNum == IF e.ctrlKey THEN (IF maxNum = 0 THEN 1 ELSE maxNum)
                   ELSE maxNum + 1
        isElaboration == e.ctrlKey \/ e.shiftKey
    IN \* Math.hypot(dx, dy) < 0.01
       IF dx * dx + dy * dy < DotThreshold * DotThreshold
       THEN [addAnnotation(w, DotAnn(w.nextId, w.activeMode, w.currentImageIndex,
                                     e.pt, nextNum, isElaboration))
               EXCEPT !.nextId = w.nextId + 1]
       ELSE w

\* the history push of a finished moving, resizing or moving-multi gesture
MouseUpPush(w) ==
    IF /\ w.interactionMode \in {"moving", "resizing", "moving-multi"}
       /\ w.historyRefs.dragStartSnapshot # None
       /\ w.sessionId # None
    THEN PushSnapshot(w.history, HistoryKey(w), w.historyRefs.dragStartSnapshot[1])
    ELSE w.history

\* handleMouseUp(e)
MouseUp(w, e) ==
    IF w.interactionMode = "panning"
    THEN [w EXCEPT !.interactionMode = "none", !.dragSnapshot = None]
    ELSE IF w.dragSnapshot = None THEN w
    ELSE
    LET w1 == [w EXCEPT !.history = MouseUpPush(w),
                        !.selectionBox = IF w.interactionMode = "selecting"
                                         THEN None ELSE @]
        \* the queued updates of the two button branches are applied after the
        \* gesture push; both read the closure w
        w2 == IF e.button = 0 /\ w.interactionMode = "creating"
              THEN MouseUpCreating(w1, e)
              ELSE IF e.button = 2 /\ w.interactionMode = "none"
              THEN MouseUpRightClick(w1, e)
              ELSE w1
    IN [w2 EXCEPT !.interactionMode = "none",
                  !.dragSnapshot = None,
                  !.creationDragCurrent = None,
                  !.historyRefs.dragStartSnapshot = None]

(***************************************************************************)
(* useGradingSession: undo, redo, update, delete, navigation.              *)
(***************************************************************************)
\* setStudents(prev => prev.map(s => s.id !== currentStudent.id ? s :
\*     { ...s, annotations: [...otherPageAnns, ...pageAnns] }))
RestorePage(w, pageAnns) ==
    [i \in 1..Len(w.students) |->
        IF w.students[i].id # CurrentStudent(w).id THEN w.students[i]
        ELSE [w.students[i] EXCEPT !.annotations =
                OtherPageAnns(w.students[i].annotations, w.currentImageIndex)
                \o pageAnns]]

\* a score update that also rewrites the snapshot of the subject's stamps
updateScoreRestamp(w, category, val) ==
    [w EXCEPT !.students =
        [idx \in 1..Len(w.students) |->
            IF idx # w.currentStudentIndex THEN w.students[idx]
            ELSE [w.students[idx] EXCEPT
                    !.scores = [w.students[idx].scores EXCEPT ![category] = val],
                    !.annotations =
                        [i \in 1..Len(w.students[idx].annotations) |->
                            LET a == w.students[idx].annotations[i]
                            IN IF a.type # "stamp" THEN a
                               ELSE [a EXCEPT !.stampData.scores =
                                        [a.stampData.scores EXCEPT ![category] = val]]]]]]

\* updateScore(category, val)
updateScore(w, category, val) ==
    [w EXCEPT !.students =
        [idx \in 1..Len(w.students) |->
            IF idx # w.currentStudentIndex THEN w.students[idx]
            ELSE [w.students[idx] EXCEPT !.scores =
                    [w.students[idx].scores EXCEPT ![category] = val]]]]

\* an undo without the guard on the empty past: it files the displayed page
\* under future and restores an empty page
performUndoUnguarded(w) ==
    IF ~HasCurrentStudent(w) THEN w
    ELSE LET entry == EntryOf(w.history, HistoryKey(w))
             newPast == SubSeq(entry.past, 1, Len(entry.past) - 1)
             previousPageAnns == IF Len(entry.past) = 0 THEN <<>>
                                 ELSE entry.past[Len(entry.past)]
         IN [w EXCEPT
               !.history = PutEntry(w.history, HistoryKey(w),
                   [past |-> newPast,
                    future |-> <<JsonCopy(CurrentPageAnns(w))>> \o entry.future]),
               !.students = RestorePage(w, previousPageAnns)]

\* performUndo()
performUndo(w) ==
    IF ~HasCurrentStudent(w) THEN w
    ELSE IF HistoryKey(w) \notin DOMAIN w.history THEN w
    ELSE LET entry == w.history[HistoryKey(w)]
         IN IF Len(entry.past) = 0 THEN w
            ELSE LET newPast == SubSeq(entry.past, 1, Len(entry.past) - 1)
                     previousPageAnns == entry.past[Len(entry.past)]
                 IN [w EXCEPT
                       !.history = PutEntry(w.history, HistoryKey(w),
                           [past |-> newPast,
                            future |-> <<JsonCopy(CurrentPageAnns(w))>> \o entry.future]),
                       !.students = RestorePage(w, previousPageAnns)]

\* performRedo()
performRedo(w) ==
    IF ~HasCurrentStudent(w) THEN w
    ELSE IF HistoryKey(w) \notin DOMAIN w.history THEN w
    ELSE LET entry == w.history[HistoryKey(w)]
         IN IF Len(entry.future) = 0 THEN w
            ELSE LET newFuture == Tail(entry.future)
                     nextPageAnns == Head(entry.future)
                 IN [w EXCEPT
                       !.history = PutEntry(w.history, HistoryKey(w),
                           [past |-> Append(entry.past, JsonCopy(CurrentPageAnns(w))),
                            future |-> newFuture]),
                       !.students = RestorePage(w, nextPageAnns)]

\* updateAnnotation(id, { text }): the snapshot of a burst's first call, the
\* restarted idle timer, then the merge into the annotation
\* a.id === id ? { ...a, ...updates } : a, the update being the comment text
MergeText(a, id, text) == IF a.id = id THEN [a EXCEPT !.text = text] ELSE a

\* an update that snapshots on every call, burst or not
updateAnnotationEveryCall(w, id, text) ==
    [w EXCEPT
        !.history = recordHistory(w, w.history),
        !.historyRefs.isTyping = TRUE,
        !.historyRefs.typingTimeout = TRUE,
        !.students = SetCurrentAnnotations(w,
            [i \in 1..Len(CurrentAnnotations(w)) |->
                MergeText(CurrentAnnotations(w)[i], id, text)])]

updateAnnotation(w, id, text) ==
    [w EXCEPT
        !.history = IF ~w.historyRefs.isTyping THEN recordHistory(w, w.history) ELSE @,
        !.historyRefs.isTyping = TRUE,
        !.historyRefs.typingTimeout = TRUE,
        !.students = SetCurrentAnnotations(w,
            [i \in 1..Len(CurrentAnnotations(w)) |->
                MergeText(CurrentAnnotations(w)[i], id, text)])]

\* the callback of setTimeout(..., 1000)
TypingTimeout(w) ==
    [w EXCEPT !.historyRefs.isTyping = FALSE, !.historyRefs.typingTimeout = FALSE]

\* deleteAnnotation(id)
deleteAnnotation(w, id) ==
    [w EXCEPT
        !.history = recordHistory(w, w.history),
        !.students = SetCurrentAnnotations(w,
            SelectSeq(CurrentAnnotations(w), LAMBDA a: a.id # id))]

\* a deleteAnnotations that records history whatever ids holds
deleteAnnotationsUnguarded(w, ids) ==
    [w EXCEPT
        !.history = recordHistory(w, w.history),
        !.students = SetCurrentAnnotations(w,
            SelectSeq(CurrentAnnotations(w), LAMBDA a: a.id \notin ids))]
\* deleteAnnotations(ids)
deleteAnnotations(w, ids) ==
    IF ids = {} THEN w
    ELSE [w EXCEPT
            !.history = recordHistory(w, w.history),
            !.students = SetCurrentAnnotations(w,
                SelectSeq(CurrentAnnotations(w), LAMBDA a: a.id \notin ids))]

\* changeStudent(offset, targetImageIndex); indexes count from 1 for students
\* and from 0 for pages
changeStudent(w, offset, targetImageIndex) ==
    LET newIndex == w.currentStudentIndex + offset
    IN IF newIndex < 1 \/ newIndex > Len(w.students) THEN w
       ELSE [w EXCEPT !.currentStudentIndex = newIndex,
                      !.currentImageIndex = targetImageIndex]

\* handleUniversalNext()
handleUniversalNext(w) ==
    IF ~HasCurrentStudent(w) THEN w
    ELSE IF w.currentImageIndex < Len(CurrentStudent(w).images) - 1
    THEN [w EXCEPT !.currentImageIndex = @ + 1]
    ELSE IF w.currentStudentIndex < Len(w.students)
    THEN changeStudent(w, 1, 0)
    ELSE w

\* handleUniversalPrev()
handleUniversalPrev(w) ==
    IF ~HasCurrentStudent(w) THEN w
    ELSE IF w.currentImageIndex > 0
    THEN [w EXCEPT !.currentImageIndex = @ - 1]
    ELSE IF w.currentStudentIndex > 1
    THEN changeStudent(w, -1, Len(w.students[w.currentStudentIndex - 1].images) - 1)
    ELSE w

(***************************************************************************)
(* GradingScreen: keyboard shortcuts and toolbar; AnnotationCanvas: editor.*)
(***************************************************************************)
\* F1, Ctrl+M, S and the toolbar buttons of the category and stamp tools
ToggleTool(w, m) ==
    [w EXCEPT !.activeMode = IF w.activeMode = m THEN "general" ELSE m]

\* the toolbar button of the selection tool
SelectToolButton(w) ==
    LET next == IF w.activeMode = "select" THEN "general" ELSE "select"
    IN [w EXCEPT !.activeMode = next,
                 !.selectedIds = IF next # "select" THEN {} ELSE @]

\* Escape outside the editor
KeyEscape(w) ==
    IF w.activeMode \in {"select", "stamper"}
    THEN [w EXCEPT !.activeMode = "general", !.selectedIds = {}]
    ELSE w

\* Delete outside an input field
KeyDelete(w) ==
    IF w.activeMode = "select" /\ w.selectedIds # {}
    THEN [deleteAnnotations(w, w.selectedIds) EXCEPT !.selectedIds = {}]
    ELSE IF w.editingAnnotationId # NoId
    THEN deleteAnnotation(w, w.editingAnnotationId)
    ELSE w

\* the editor is mounted for the focused annotation of the displayed page
\* unless it is a stamp
EditorOpen(w) ==
    /\ w.editingAnnotationId # NoId
    /\ HasCurrentStudent(w)
    /\ LET anns == CurrentStudent(w).annotations
           i == FindIndex(anns, w.editingAnnotationId)
       IN i # 0 /\ anns[i].pageIndex = w.currentImageIndex /\ anns[i].type # "stamp"

\* onClose: Done, Enter, and Escape or Cancel on an annotation that is not new
EditorClose(w) == [w EXCEPT !.editingAnnotationId = NoId, !.newAnnotationId = NoId]

\* onDelete: the Delete button, and Escape or Cancel on a new annotation
EditorDelete(w) == deleteAnnotation(w, w.editingAnnotationId)

\* Escape inside the editor
EditorEscape(w) ==
    IF w.editingAnnotationId = w.newAnnotationId THEN EditorDelete(w)
    ELSE EditorClose(w)

(***************************************************************************)
(* The events the grading screen can receive.                              *)
(***************************************************************************)
DownEvent(button, annotationId, rectIndex, handle, pt, shiftKey) ==
    [button |-> button, annotationId |-> annotationId, rectIndex |-> rectIndex,
     handle |-> handle, pt |-> pt, shiftKey |-> shiftKey]

\* the elements rendered for one annotation of the displayed page, each with
\* the pointer position at its anchor: a dot or stamp at its point, a
\* rectangle at its origin, and the nw and se handles of every rectangle of
\* the focused annotation
ElementsOf(w, a) ==
    IF a.type \in {"dot", "stamp"}
    THEN {[annotationId |-> a.id, rectIndex |-> NoIndex, handle |-> NoHandle,
           pt |-> Point(a.x, a.y)]}
    ELSE UNION {
            {[annotationId |-> a.id, rectIndex |-> r, handle |-> NoHandle,
              pt |-> Point(a.rects[r].x, a.rects[r].y)]}
            \cup (IF w.editingAnnotationId = a.id
                  THEN {[annotationId |-> a.id, rectIndex |-> r, handle |-> "nw",
                         pt |-> Point(a.rects[r].x, a.rects[r].y)],
                        [annotationId |-> a.id, rectIndex |-> r, handle |-> "se",
                         pt |-> Point(a.rects[r].x + a.rects[r].width,
                                      a.rects[r].y + a.rects[r].height)]}
                  ELSE {})
            : r \in 1..Len(a.rects)}

Elements(w) ==
    IF ~HasCurrentStudent(w) THEN {}
    ELSE LET anns == CurrentPageAnns(w)
         IN UNION {ElementsOf(w, anns[i]) : i \in 1..Len(anns)}

\* left button on an element or on the empty canvas; the middle and the right
\* button, whose branches read neither the target nor (middle) the modifier
DownEvents(w) ==
    {DownEvent(0, el.annotationId, el.rectIndex, el.handle, el.pt, sh) :
        el \in Elements(w), sh \in BOOLEAN}
    \cup {DownEvent(0, NoId, NoIndex, NoHandle, pt, sh) : pt \in Points, sh \in BOOLEAN}
    \cup {DownEvent(1, NoId, NoIndex, NoHandle, pt, FALSE) : pt \in Points}
    \cup {DownEvent(2, NoId, NoIndex, NoHandle, pt, sh) : pt \in Points, sh \in BOOLEAN}

UpEvents ==
    {[button |-> b, pt |-> pt, shiftKey |-> sh, ctrlKey |-> ct] :
        b \in {0, 1, 2}, pt \in Points, sh \in BOOLEAN, ct \in BOOLEAN}

\* the model stops at its bounds
Bounded(w) ==
    /\ w.nextId <= MaxIds + 1
    /\ \A k \in DOMAIN w.history:
          Len(w.history[k].past) + Len(w.history[k].future) <= MaxHist
    /\ \A i \in 1..Len(w.students):
          \A j \in 1..Len(w.students[i].annotations):
             Len(w.students[i].annotations[j].rects) <= MaxRects

(***************************************************************************)
(* History variables.  They record what the user did, never what the       *)
(* handlers decided, and no handler reads them.                            *)
(***************************************************************************)
\* the pointer-down that began the gesture, the displayed page's past stack
\* and the subject's annotations at that moment, whether a pointer-move
\* followed, and whether only pointer events followed
GestureDown(e) ==
    Some([event |-> e,
          idle |-> interactionMode = "none" /\ dragSnapshot = None,
          past |-> EntryOf(history, HistoryKey(World)).past,
          anns |-> CurrentStudent(World).annotations,
          moved |-> FALSE,
          pure |-> TRUE])
GestureMove == IF gesture = None THEN None ELSE Some([gesture[1] EXCEPT !.moved = TRUE])
GestureOther == IF gesture = None THEN None ELSE Some([gesture[1] EXCEPT !.pure = FALSE])

\* a run: n mutations of the displayed page, then k undos, then k redos
NoLaw == [phase |-> "none", open |-> FALSE, button |-> 0, n |-> 0, k |-> 0,
          init |-> <<>>, final |-> <<>>]
\* the run a mutation continues, or the one it starts
LawBase ==
    IF law.phase = "mutate" THEN law
    ELSE [NoLaw EXCEPT !.phase = "mutate", !.init = CurrentPageAnns(World)]
\* a mutation completed, leaving the world w
LawDone(w) ==
    [LawBase EXCEPT !.open = FALSE, !.n = @ + 1, !.final = CurrentPageAnns(w)]
LawBusy == law.phase = "mutate" /\ law.open

\* a stamp click is an add; a left press without modifier outside the select
\* tool begins a create, move or resize; a right press begins a dot click;
\* any other press, and any press during a gesture of the run, ends the run
LawDown(e) ==
    IF LawBusy THEN NoLaw
    ELSE IF e.button = 0 /\ activeMode = "stamper" /\ e.annotationId = NoId
    THEN LawDone(MouseDown(World, e))
    ELSE IF e.button = 1 \/ activeMode = "select" \/ e.shiftKey THEN NoLaw
    ELSE [LawBase EXCEPT !.open = TRUE, !.button = e.button]

\* a pointer-move belongs to the gesture of the run; outside one it ends the
\* run when it changes anything
LawMove(pt) ==
    IF LawBusy \/ MouseMove(World, pt) = World THEN law ELSE NoLaw

\* the release of the pressed button completes the gesture; a right drag that
\* adds no dot is no mutation
LawUp(e) ==
    IF LawBusy
    THEN IF e.button # law.button \/ e.shiftKey THEN NoLaw
         ELSE IF e.button = 2 /\ MouseUp(World, e).students = students THEN NoLaw
         ELSE LawDone(MouseUp(World, e))
    ELSE IF MouseUp(World, e) = World THEN law ELSE NoLaw

\* a delete is a mutation of the displayed page when it removes annotations
\* of that page only
LawDelete(w) ==
    IF LawBusy \/ ~HasCurrentStudent(World) THEN NoLaw
    ELSE LET before == CurrentStudent(World).annotations
             after == CurrentStudent(w).annotations
         IN IF /\ Len(after) < Len(before)
               /\ OtherPageAnns(after, currentImageIndex)
                    = OtherPageAnns(before, currentImageIndex)
            THEN LawDone(w) ELSE NoLaw

LawUndo ==
    IF law.phase = "mutate" /\ ~law.open /\ law.n >= 1
    THEN [law EXCEPT !.phase = "undo", !.k = 1]
    ELSE IF law.phase = "undo" /\ law.k < law.n THEN [law EXCEPT !.k = @ + 1]
    ELSE NoLaw

LawRedo ==
    IF law.phase = "undo" /\ law.k = law.n THEN [law EXCEPT !.phase = "redo", !.k = 1]
    ELSE IF law.phase = "redo" /\ law.k < law.n THEN [law EXCEPT !.k = @ + 1]
    ELSE NoLaw

(***************************************************************************)
(* Specification.                                                          *)
(***************************************************************************)
vars == << progVars, steps, gesture, law, stamped, typed, calc >>

\* the grading screen right after onStartGrading, for a list of subjects
InitState(sts) ==
    /\ sessionId = Some(SessionId)
    /\ students = sts
    /\ step = "grading"
    /\ savedSessions = << >>
    /\ enhanceMode = FALSE
    /\ processedCache = << >>
    /\ isProcessingImg = FALSE
    /\ jobs = {}
    /\ processedStore = << >>
    /\ currentStudentIndex = 1
    /\ currentImageIndex = 0
    /\ activeMode = "content"
    /\ history = << >>
    /\ historyRefs = [typingTimeout |-> FALSE, isTyping |-> FALSE,
                      dragStartSnapshot |-> None]
    /\ interactionMode = "none"
    /\ dragSnapshot = None
    /\ creationDragCurrent = None
    /\ editingAnnotationId = NoId
    /\ newAnnotationId = NoId
    /\ selectedIds = {}
    /\ selectionBox = None
    /\ nextId = 1
    /\ steps = 0
    /\ gesture = None
    /\ law = NoLaw
    /\ stamped = << >>
    /\ typed = None
\* no pure function is under study
InitWith(sts) == InitState(sts) /\ calc = << >>

Init == InitWith(InitialStudents)

\* the result of processImageWithSauvola: a function of the source image
Sauvola(original) == << "sauvola", original >>
\* `${sessionId}-${s.id}-${currentImageIndex}`
CacheKey(w) == << w.sessionId[1], CurrentStudent(w).id, w.currentImageIndex >>
\* m with k mapped to v
Put(m, k, v) == [kk \in (DOMAIN m) \cup {k} |-> IF kk = k THEN v ELSE m[kk]]
\* s.images[currentImageIndex], None when there is no such page
OriginalOf(w) ==
    IF w.currentImageIndex + 1 \in 1..Len(CurrentStudent(w).images)
    THEN Some(CurrentStudent(w).images[w.currentImageIndex + 1])
    ELSE None

\* an enhance effect that starts a job whether or not one is running
EnhanceEffectUnguarded(w) ==
    IF w.enhanceMode /\ Len(w.students) > 0
    THEN IF ~HasCurrentStudent(w) \/ w.sessionId = None THEN w
         ELSE IF CacheKey(w) \notin DOMAIN w.processedCache
         THEN [w EXCEPT !.isProcessingImg = TRUE,
                        !.jobs = @ \cup {[key |-> CacheKey(w),
                                          original |-> OriginalOf(w)]}]
         ELSE w
    ELSE w

\* the enhance effect, run after every render: it starts a job for the
\* displayed page when none is cached and none is running
EnhanceEffect(w) ==
    IF w.enhanceMode /\ Len(w.students) > 0
    THEN IF ~HasCurrentStudent(w) \/ w.sessionId = None THEN w
         ELSE IF CacheKey(w) \notin DOMAIN w.processedCache /\ ~w.isProcessingImg
         THEN [w EXCEPT !.isProcessingImg = TRUE,
                        !.jobs = @ \cup {[key |-> CacheKey(w),
                                          original |-> OriginalOf(w)]}]
         ELSE w
    ELSE w

\* the stamps that the step to w creates get the scores of before the step
Stamped(w) ==
    IF ~HasCurrentStudent(w) \/ ~HasCurrentStudent(World) THEN stamped
    ELSE
    LET anns == CurrentStudent(w).annotations
        new == {anns[i].id : i \in {j \in 1..Len(anns):
                    anns[j].type = "stamp" /\ anns[j].id >= nextId}}
    IN [id \in (DOMAIN stamped) \cup new |->
            IF id \in DOMAIN stamped THEN stamped[id]
            ELSE CurrentStudent(World).scores]

\* one event: the handler ran and React committed w; an event that changes
\* nothing is no step
AdvanceTyped(w, g, l, t) ==
    /\ steps < MaxSteps
    /\ Bounded(w)
    /\ << w, g, l >> # << World, gesture, law >>
    /\ Commit(EnhanceEffect(w))
    /\ gesture' = g
    /\ law' = l
    /\ stamped' = Stamped(w)
    /\ typed' = t
    /\ steps' = steps + 1
    /\ UNCHANGED calc
\* an event other than a text update: the last update stays the last one
\* until the idle timer has fired
Advance(w, g, l) ==
    AdvanceTyped(w, g, l, IF w.historyRefs.isTyping THEN typed ELSE None)

PointerDown == \E e \in DownEvents(World):
    Advance(MouseDown(World, e), GestureDown(e), LawDown(e))
PointerMove == \E pt \in Points:
    Advance(MouseMove(World, pt), GestureMove, LawMove(pt))
PointerUp == \E e \in UpEvents:
    Advance(MouseUp(World, e), None, LawUp(e))
Undo == Advance(performUndo(World), GestureOther, LawUndo)
Redo == Advance(performRedo(World), GestureOther, LawRedo)
DeleteKey == Advance(KeyDelete(World), GestureOther, LawDelete(KeyDelete(World)))
EscapeKey == Advance(KeyEscape(World), GestureOther, NoLaw)
ToolKey == \E m \in {"content", "select", "stamper"}:
    Advance(ToggleTool(World, m), GestureOther, NoLaw)
SelectButton == Advance(SelectToolButton(World), GestureOther, NoLaw)
ArrowRight == Advance(handleUniversalNext(World), GestureOther, NoLaw)
ArrowLeft == Advance(handleUniversalPrev(World), GestureOther, NoLaw)
EditorInput == \E t \in Texts:
    /\ EditorOpen(World)
    /\ AdvanceTyped(updateAnnotation(World, editingAnnotationId, t),
                    GestureOther, NoLaw, Some(HistoryKey(World)))
EditorDone ==
    /\ EditorOpen(World)
    /\ Advance(EditorClose(World), GestureOther, NoLaw)
EditorTrash ==
    /\ EditorOpen(World)
    /\ Advance(EditorDelete(World), GestureOther, LawDelete(EditorDelete(World)))
EditorEsc ==
    /\ EditorOpen(World)
    /\ Advance(EditorEscape(World), GestureOther,
               IF editingAnnotationId = newAnnotationId
               THEN LawDelete(EditorEscape(World)) ELSE NoLaw)
ScoreButton == \E c \in ScoreCategories, v \in ScoreVals:
    Advance(updateScore(World, c, v), GestureOther, law)
TimerFire ==
    /\ historyRefs.typingTimeout
    /\ Advance(TypingTimeout(World), gesture, law)

Next ==
    \/ PointerDown \/ PointerMove \/ PointerUp
    \/ Undo \/ Redo \/ DeleteKey \/ EscapeKey \/ ToolKey \/ SelectButton
    \/ ArrowRight \/ ArrowLeft
    \/ EditorInput \/ EditorDone \/ EditorTrash \/ EditorEsc
    \/ ScoreButton
    \/ TimerFire

Spec == Init /\ [][Next]_vars

(***************************************************************************)
(* Properties.                                                             *)
(***************************************************************************)
\* the past and the future stack of the displayed page in world w
PastOf(w) == EntryOf(w.history, HistoryKey(w)).past
FutureOf(w) == EntryOf(w.history, HistoryKey(w)).future

DragModes == {"moving", "resizing", "moving-multi"}
Last(seq) == seq[Len(seq)]

\* the operations the properties quantify over, as the events that trigger
\* them in the current state
StampDowns ==
    {e \in DownEvents(World):
        e.button = 0 /\ activeMode = "stamper" /\ e.annotationId = NoId}
CreatingUps ==
    IF interactionMode = "creating" /\ dragSnapshot # None
    THEN {e \in UpEvents: e.button = 0} ELSE {}
DotUps ==
    IF interactionMode = "none" /\ dragSnapshot # None
    THEN {e \in UpEvents: e.button = 2 /\ MouseUp(World, e).students # students}
    ELSE {}
DragUps ==
    IF interactionMode \in DragModes /\ dragSnapshot # None THEN UpEvents ELSE {}
\* the worlds a delete that removes an annotation leaves: the Delete key
\* (delete and deleteMany) and the editor's delete
RemovingDeletes ==
    {w \in {KeyDelete(World)} \cup (IF EditorOpen(World) THEN {EditorDelete(World)} ELSE {}):
        Len(CurrentStudent(w).annotations) < Len(CurrentStudent(World).annotations)}

\* C2: with a non-empty past, undo then redo leaves the displayed page's list,
\* past and future as they were; with a non-empty future, so does redo then undo
UndoRedoIdentity ==
    /\ PastOf(World) # <<>> =>
          LET w == performRedo(performUndo(World))
          IN /\ CurrentPageAnns(w) = CurrentPageAnns(World)
             /\ PastOf(w) = PastOf(World)
             /\ FutureOf(w) = FutureOf(World)
    /\ FutureOf(World) # <<>> =>
          LET w == performUndo(performRedo(World))
          IN /\ CurrentPageAnns(w) = CurrentPageAnns(World)
             /\ PastOf(w) = PastOf(World)
             /\ FutureOf(w) = FutureOf(World)

\* C3: a snapshot pushed on the displayed page's past by an add, a delete, a
\* deleteMany or an extend-append is that page's list just before the
\* operation; one pushed by a finished move, resize or multi-move gesture is
\* that page's list as it was at the gesture's pointer-down
SnapshotIsPreState ==
    /\ \A w \in {MouseDown(World, e) : e \in StampDowns}
              \cup {MouseUp(World, e) : e \in CreatingUps \cup DotUps}
              \cup RemovingDeletes:
          PastOf(w) = Append(PastOf(World), CurrentPageAnns(World))
    /\ \A e \in DragUps:
          LET w == MouseUp(World, e)
          IN PastOf(w) # PastOf(World) =>
                PastOf(w) = Append(PastOf(World),
                                   PageAnns(gesture[1].anns, currentImageIndex))

ExactlyOnePush ==
    /\ \A w \in {MouseDown(World, e) : e \in StampDowns}
              \cup {MouseUp(World, e) : e \in DotUps}
              \cup {MouseUp(World, e) : e \in {u \in CreatingUps: ~u.shiftKey}}
              \cup RemovingDeletes:
          Len(PastOf(w)) = Len(PastOf(World)) + 1
    /\ (EditorOpen(World) /\ ~historyRefs.typingTimeout) =>
          \A t \in Texts:
             Len(PastOf(updateAnnotation(World, editingAnnotationId, t)))
                = Len(PastOf(World)) + 1
    /\ (/\ gesture # None
        /\ gesture[1].pure /\ ~gesture[1].moved
        /\ gesture[1].event.button = 0 /\ gesture[1].event.annotationId # NoId
        /\ ~gesture[1].event.shiftKey) =>
          \A e \in {u \in UpEvents: u.button = 0 /\ ~u.shiftKey}:
             LET w == MouseUp(World, e)
             IN CurrentStudent(w).annotations = gesture[1].anns
                  => PastOf(w) = gesture[1].past
    /\ interactionMode \in {"panning", "selecting"} =>
          /\ \A pt \in Points: MouseMove(World, pt).history = history
          /\ \A e \in UpEvents: MouseUp(World, e).history = history
    /\ (/\ editingAnnotationId # NoId
        /\ FindIndex(CurrentStudent(World).annotations, editingAnnotationId) = 0) =>
          KeyDelete(World).history = history

\* C6: an update that arrives while the idle timer of the previous update is
\* still pending pushes nothing, so a burst has the one snapshot of its first
\* update; an update that arrives with no timer pending pushes one snapshot,
\* the displayed page's list before it
Coalescing ==
    /\ historyRefs.isTyping = historyRefs.typingTimeout
    /\ EditorOpen(World) =>
          \A t \in Texts:
             LET w == updateAnnotation(World, editingAnnotationId, t)
             IN /\ w.historyRefs.typingTimeout
                /\ IF historyRefs.typingTimeout
                   THEN w.history = history
                   ELSE /\ PastOf(w) = Append(PastOf(World), CurrentPageAnns(World))
                        /\ \A k \in DOMAIN history \ {HistoryKey(World)}:
                              w.history[k] = history[k]
\* an update is about to arrive inside the burst a first update opened
CoalescingWitness ==
    /\ EditorOpen(World)
    /\ historyRefs.typingTimeout
    /\ PastOf(World) # <<>>
    /\ \E i \in 1..Len(CurrentPageAnns(World)): CurrentPageAnns(World)[i].text # ""

\* C7: no pointer-move changes the history, and the pointer-up that ends a
\* move, resize or multi-move gesture of one pointer-down and at least one
\* pointer-move leaves the displayed page's past one snapshot longer than it
\* was at the pointer-down
GestureOneSnapshot ==
    /\ \A pt \in Points: MouseMove(World, pt).history = history
    /\ (/\ gesture # None
        /\ gesture[1].pure /\ gesture[1].moved
        /\ interactionMode \in DragModes) =>
          \A e \in UpEvents:
             Len(PastOf(MouseUp(World, e))) = Len(gesture[1].past) + 1

\* C8: whatever the mode and the button, a pointer-up leaves the mode idle and
\* the drag snapshot, the creation drag point and the rubber-band box cleared
PointerUpResets ==
    \A e \in UpEvents:
       LET w == MouseUp(World, e)
       IN /\ w.interactionMode = "none"
          /\ w.dragSnapshot = None
          /\ w.creationDragCurrent = None
          /\ w.selectionBox = None

\* C9: a pointer-down of any button that arrives while the mode is not idle
\* leaves the mode, the drag snapshot and the pending history snapshot of the
\* gesture as they are
DownOnlyFromIdle ==
    interactionMode # "none" =>
       \A e \in DownEvents(World):
          LET w == MouseDown(World, e)
          IN /\ w.interactionMode = interactionMode
             /\ w.dragSnapshot = dragSnapshot
             /\ w.historyRefs.dragStartSnapshot = historyRefs.dragStartSnapshot

\* the annotation a pointer-down event names is a rect annotation
OnRect(e) ==
    LET anns == CurrentStudent(World).annotations
        i == FindIndex(anns, e.annotationId)
    IN i # 0 /\ anns[i].type = "rect"
\* the rule of the dispatch order that a left or middle pointer-down matches
DispatchRule(e) ==
    IF e.button = 1 THEN 1
    ELSE IF activeMode = "stamper" /\ e.annotationId = NoId THEN 2
    ELSE IF activeMode = "select" THEN 3
    ELSE IF e.handle # NoHandle /\ OnRect(e) THEN 4
    ELSE IF e.annotationId # NoId /\ e.shiftKey /\ OnRect(e) THEN 5
    ELSE IF e.annotationId # NoId THEN 6
    ELSE 7
DispatchMode(e) ==
    CASE DispatchRule(e) = 1 -> "panning"
      [] DispatchRule(e) = 2 -> "none"
      [] DispatchRule(e) = 3 ->
            IF e.annotationId # NoId THEN "moving-multi" ELSE "selecting"
      [] DispatchRule(e) = 4 -> "resizing"
      [] DispatchRule(e) = 5 -> "creating"
      [] DispatchRule(e) = 6 -> "moving"
      [] DispatchRule(e) = 7 -> "creating"

\* C10: a left or middle pointer-down received in idle gives the mode of the
\* first matching rule; the stamp rule appends one stamp at the pointer, the
\* handle rule stores the rectangle's geometry, the handle and the rectangle's
\* index, and the extend rule binds the creation to the annotation pressed
PriorityDispatch ==
    interactionMode = "none" =>
       \A e \in {d \in DownEvents(World): d.button # 2}:
          LET w == MouseDown(World, e)
              before == CurrentStudent(World).annotations
              after == CurrentStudent(w).annotations
          IN /\ w.interactionMode = DispatchMode(e)
             /\ IF DispatchRule(e) = 2
                THEN /\ Len(after) = Len(before) + 1
                     /\ SubSeq(after, 1, Len(before)) = before
                     /\ Last(after).type = "stamp"
                     /\ Last(after).pageIndex = currentImageIndex
                     /\ Point(Last(after).x, Last(after).y) = e.pt
                ELSE after = before
             /\ DispatchRule(e) = 4 =>
                   /\ w.dragSnapshot # None
                   /\ w.dragSnapshot[1].initialRect =
                         Some(before[FindIndex(before, e.annotationId)].rects[e.rectIndex])
                   /\ w.dragSnapshot[1].handle = e.handle
                   /\ w.dragSnapshot[1].rectIndex = e.rectIndex
                   /\ w.dragSnapshot[1].annotationId = e.annotationId
             /\ DispatchRule(e) = 5 => w.editingAnnotationId = e.annotationId
\* an idle state whose focused rectangle offers a handle, its body with the
\* extend modifier and its body without it, so that rules 4, 5 and 6 apply
PriorityDispatchWitness ==
    /\ interactionMode = "none"
    /\ \E e \in DownEvents(World):
          DispatchRule(e) = 4 /\ MouseDown(World, e).interactionMode = "resizing"
    /\ \E e \in DownEvents(World):
          DispatchRule(e) = 5 /\ MouseDown(World, e).interactionMode = "creating"
    /\ \E e \in DownEvents(World):
          DispatchRule(e) = 6 /\ MouseDown(World, e).interactionMode = "moving"

\* C11: a move, resize, multi-move or select gesture cancelled with the cancel
\* key before pointer-up leaves the annotations at their geometry of the
\* pointer-down, the displayed page's past as it was then, and the mode idle
CancelRestores ==
    (/\ gesture # None
     /\ gesture[1].pure
     /\ interactionMode \in DragModes \cup {"selecting"}) =>
        LET w == KeyEscape(World)
        IN /\ w.interactionMode = "none"
           /\ CurrentAnnotations(w) = gesture[1].anns
           /\ PastOf(w) = gesture[1].past


\* pointer positions the handler-level properties probe: the page's corners
\* and edges next to the positions of Points
ProbeCoords == {0, 10, 50, 99, One}
ProbePoints == {Point(px, py) : px \in ProbeCoords, py \in ProbeCoords}
ProbeUps ==
    {[button |-> b, pt |-> pt, shiftKey |-> sh, ctrlKey |-> FALSE] :
        b \in {0, 2}, pt \in ProbePoints, sh \in BOOLEAN}

RectInPage(r) ==
    r.x >= 0 /\ r.y >= 0 /\ r.x + r.width <= One /\ r.y + r.height <= One
AnnInPage(a) ==
    IF a.type = "rect"
    THEN \A i \in 1..Len(a.rects): RectInPage(a.rects[i])
    ELSE a.x \in 0..One /\ a.y \in 0..One
InPage(w) ==
    \A s \in 1..Len(w.students):
       \A i \in 1..Len(w.students[s].annotations):
          AnnInPage(w.students[s].annotations[i])

\* C12: every rectangle lies inside the page and every dot and stamp has its
\* point on the page, in every reachable state and after a pointer-move or a
\* pointer-up at any probed position, undo and redo included
GeometryInPage ==
    /\ InPage(World)
    /\ \A pt \in ProbePoints: InPage(MouseMove(World, pt))
    /\ \A e \in ProbeUps: InPage(MouseUp(World, e))
    /\ InPage(performUndo(World))
    /\ InPage(performRedo(World))


\* the annotation with the given id as it was at the gesture's pointer-down
AtDown(id) == gesture[1].anns[FindIndex(gesture[1].anns, id)]
\* a rectangle or a point carried by (dx, dy) and kept on the page
MovedRect(r0, dx, dy) ==
    [x |-> clamp(r0.x + dx, 0, One - r0.width),
     y |-> clamp(r0.y + dy, 0, One - r0.height),
     width |-> r0.width, height |-> r0.height]
MovedPoint(p0, dx, dy) == Point(clamp(p0.x + dx, 0, One), clamp(p0.y + dy, 0, One))
\* every subject but the current one, and the current one's other fields
SameButAnnotations(w) ==
    /\ Len(w.students) = Len(students)
    /\ \A s \in 1..Len(students):
          IF s = currentStudentIndex
          THEN [w.students[s] EXCEPT !.annotations = <<>>]
                  = [students[s] EXCEPT !.annotations = <<>>]
          ELSE w.students[s] = students[s]

\* what a pointer-move at pt must make of annotation a during a single move
\* of rectangle rectIndex (or of the point) of annotation id
SingleMoved(a, id, rectIndex, dx, dy) ==
    IF a.id # id THEN a
    ELSE IF a.type = "rect"
    THEN [a EXCEPT !.rects[rectIndex] =
                      MovedRect(AtDown(id).rects[rectIndex], dx, dy)]
    ELSE [a EXCEPT !.x = MovedPoint(Point(AtDown(id).x, AtDown(id).y), dx, dy).x,
                   !.y = MovedPoint(Point(AtDown(id).x, AtDown(id).y), dx, dy).y]
\* and during a multi-move of the annotations whose ids are in moved
MultiMoved(a, moved, dx, dy) ==
    IF a.id \notin moved THEN a
    ELSE IF a.type = "rect"
    THEN [a EXCEPT !.rects = [j \in 1..Len(AtDown(a.id).rects) |->
                                 MovedRect(AtDown(a.id).rects[j], dx, dy)]]
    ELSE [a EXCEPT !.x = MovedPoint(Point(AtDown(a.id).x, AtDown(a.id).y), dx, dy).x,
                   !.y = MovedPoint(Point(AtDown(a.id).x, AtDown(a.id).y), dx, dy).y]

\* C13: during a move or a multi-move made of pointer events, a pointer-move
\* to any probed position puts every moved rectangle and point at its
\* geometry of the pointer-down carried by the pointer's offset from the start
\* point and clamped to the page, sizes kept, and leaves every other
\* rectangle and annotation as it is
MoveGeometry ==
    (gesture # None /\ gesture[1].pure /\ dragSnapshot # None) =>
       LET d == dragSnapshot[1]
           before == CurrentAnnotations(World)
       IN \A pt \in ProbePoints:
             LET w == MouseMove(World, pt)
                 dx == pt.x - d.startPoint.x
                 dy == pt.y - d.startPoint.y
             IN /\ interactionMode = "moving" =>
                     /\ SameButAnnotations(w)
                     /\ CurrentAnnotations(w) =
                           [i \in 1..Len(before) |->
                              SingleMoved(before[i], gesture[1].event.annotationId,
                                          gesture[1].event.rectIndex, dx, dy)]
                /\ (interactionMode = "moving-multi"
                        /\ d.initialMultiPositions # None) =>
                     /\ SameButAnnotations(w)
                     /\ CurrentAnnotations(w) =
                           [i \in 1..Len(before) |->
                              MultiMoved(before[i],
                                         DOMAIN d.initialMultiPositions[1], dx, dy)]

\* a single move under way whose pointer-move has carried the annotation, and
\* for which some probed position needs the clamp
MoveGeometryWitness ==
    /\ gesture # None /\ gesture[1].pure /\ gesture[1].moved
    /\ interactionMode = "moving" /\ dragSnapshot # None
    /\ CurrentAnnotations(World) # gesture[1].anns
    /\ \E pt \in ProbePoints:
          \E i \in 1..Len(CurrentAnnotations(World)):
             LET a == CurrentAnnotations(MouseMove(World, pt))[i]
             IN /\ a.type = "rect"
                /\ a.rects[1].x = One - a.rects[1].width
                /\ a.rects[1].x < pt.x


\* C14: during a resize made of pointer events, a pointer-move to any probed
\* position leaves the corner opposite to the grabbed handle where it was at
\* the pointer-down, and the rectangle at least MinSize wide and high
ResizeKeepsOppositeCorner ==
    (/\ gesture # None /\ gesture[1].pure
     /\ interactionMode = "resizing" /\ dragSnapshot # None) =>
       LET id == gesture[1].event.annotationId
           k == gesture[1].event.rectIndex
           handle == gesture[1].event.handle
           r0 == AtDown(id).rects[k]
       IN \A pt \in ProbePoints:
             LET after == CurrentAnnotations(MouseMove(World, pt))
                 r == after[FindIndex(after, id)].rects[k]
             IN /\ r.width >= MinSize /\ r.height >= MinSize
                /\ handle \in {"nw", "sw"} => r.x + r.width = r0.x + r0.width
                /\ handle \in {"ne", "se"} => r.x = r0.x
                /\ handle \in {"nw", "ne"} => r.y + r.height = r0.y + r0.height
                /\ handle \in {"sw", "se"} => r.y = r0.y


\* the closed box spanned by the pointer-down position and a pointer position
BoxOf(start, pt) ==
    Rect(Min2(start.x, pt.x), Min2(start.y, pt.y),
         Abs(pt.x - start.x), Abs(pt.y - start.y))
\* two closed rectangles have a point in common (touching edges count)
Overlaps(r, box) ==
    /\ r.x <= box.x + box.width /\ box.x <= r.x + r.width
    /\ r.y <= box.y + box.height /\ box.y <= r.y + r.height
\* they have a point in common but no interior point
TouchesOnly(r, box) ==
    /\ Overlaps(r, box)
    /\ \/ r.x = box.x + box.width \/ box.x = r.x + r.width
       \/ r.y = box.y + box.height \/ box.y = r.y + r.height
PointInBox(a, box) ==
    /\ box.x <= a.x /\ a.x <= box.x + box.width
    /\ box.y <= a.y /\ a.y <= box.y + box.height
\* the ids the rubber-band rule selects out of a list on a page
BoxSelection(anns, page, box) ==
    {anns[i].id : i \in
        {j \in 1..Len(anns):
            /\ anns[j].pageIndex = page
            /\ IF anns[j].type \in {"dot", "stamp"}
               THEN PointInBox(anns[j], box)
               ELSE \E k \in 1..Len(anns[j].rects): Overlaps(anns[j].rects[k], box)}}

\* C15: during a rubber-band selection, a pointer-move to any probed position
\* makes the selection the set of ids of the annotations of the displayed page
\* whose point lies in the closed box or one of whose rectangles overlaps it,
\* touching included; repeating the pointer-move changes nothing
RubberBandSelection ==
    (interactionMode = "selecting" /\ dragSnapshot # None) =>
        \A pt \in ProbePoints:
            LET w == MouseMove(World, pt)
                box == BoxOf(dragSnapshot[1].startPoint, pt)
            IN /\ w.selectionBox = Some(box)
               /\ w.selectedIds =
                    BoxSelection(CurrentAnnotations(World), currentImageIndex, box)
               /\ CurrentAnnotations(w) = CurrentAnnotations(World)
               /\ MouseMove(w, pt) = w
\* a rubber band whose box only touches a selected rectangle, with another
\* annotation of the page left out of the selection
RubberBandSelectionWitness ==
    /\ interactionMode = "selecting" /\ dragSnapshot # None /\ selectionBox # None
    /\ gesture # None /\ gesture[1].moved
    /\ \E i \in 1..Len(CurrentAnnotations(World)):
          LET a == CurrentAnnotations(World)[i]
          IN /\ a.id \in selectedIds /\ a.type = "rect"
             /\ \E k \in 1..Len(a.rects): TouchesOnly(a.rects[k], selectionBox[1])


\* the ids of the annotations of a list
IdsOf(anns) == {anns[i].id : i \in 1..Len(anns)}
\* the left pointer-downs on an annotation while the select tool is active
SelectDowns ==
    {e \in DownEvents(World):
        activeMode = "select" /\ e.button = 0 /\ e.annotationId # NoId}

\* C16: with the select tool, a left pointer-down on annotation a makes the
\* selection {a} when a was not selected and keeps it when a was selected; the
\* snapshot map of the multi-move then has an entry, holding the geometry at the
\* pointer-down, for each annotation of the subject that is selected and for
\* nothing else
SelectDownSnapshot ==
    \A e \in SelectDowns:
        LET w == MouseDown(World, e)
            anns == CurrentAnnotations(World)
        IN /\ w.selectedIds = IF e.annotationId \in selectedIds
                              THEN selectedIds ELSE {e.annotationId}
           /\ w.interactionMode = "moving-multi"
           /\ CurrentAnnotations(w) = anns
           /\ w.dragSnapshot # None
           /\ w.dragSnapshot[1].initialMultiPositions # None
           /\ LET m == w.dragSnapshot[1].initialMultiPositions[1]
              IN /\ DOMAIN m = IdsOf(anns) \cap w.selectedIds
                 /\ \A i \in 1..Len(anns):
                       anns[i].id \in w.selectedIds =>
                          /\ m[anns[i].id].dot = Point(anns[i].x, anns[i].y)
                          /\ m[anns[i].id].rects = anns[i].rects
\* a multi-move just started on an annotation that was not selected, with
\* another annotation of the page left out of the snapshot map
SelectDownSnapshotWitness ==
    /\ interactionMode = "moving-multi" /\ activeMode = "select"
    /\ gesture # None /\ ~gesture[1].moved /\ gesture[1].pure /\ gesture[1].idle
    /\ selectedIds = {gesture[1].event.annotationId}
    /\ dragSnapshot # None /\ dragSnapshot[1].initialMultiPositions # None
    /\ DOMAIN dragSnapshot[1].initialMultiPositions[1] = selectedIds
    /\ IdsOf(CurrentAnnotations(World)) \ selectedIds # {}


\* what undo and redo on the displayed page must leave alone: the annotations
\* of the other pages of the subject, in their order, every other subject, and
\* the stacks of every other (subject, page) key
FrameKept(w) ==
    /\ OtherPageAnns(CurrentAnnotations(w), currentImageIndex)
          = OtherPageAnns(CurrentAnnotations(World), currentImageIndex)
    /\ Len(w.students) = Len(students)
    /\ \A i \in 1..Len(students):
          i # currentStudentIndex => w.students[i] = students[i]
    /\ \A k \in (DOMAIN history) \cup (DOMAIN w.history):
          k # HistoryKey(World) => EntryOf(w.history, k) = EntryOf(history, k)
    /\ w.currentStudentIndex = currentStudentIndex
    /\ w.currentImageIndex = currentImageIndex

\* C17: undo and redo on the displayed page leave the subject's annotations of
\* the other pages, every other subject and the stacks of every other key as
\* they were
UndoRedoFrame ==
    /\ FrameKept(performUndo(World))
    /\ FrameKept(performRedo(World))


\* C18: an undo on a page whose past stack is empty, and a redo on a page whose
\* future stack is empty, change nothing at all: the annotation list and both
\* stacks of the page stay as they were
UnderflowNoOp ==
    /\ PastOf(World) = <<>> => performUndo(World) = World
    /\ FutureOf(World) = <<>> => performRedo(World) = World
\* an undo has just emptied the past stack of the displayed page, whose future
\* stack holds what it undid: the next undo underflows
UnderflowNoOpWitness ==
    /\ law.phase = "undo"
    /\ HistoryKey(World) \in DOMAIN history
    /\ PastOf(World) = <<>>
    /\ FutureOf(World) # <<>>
    /\ interactionMode = "none"


\* the releases of the right button where it was pressed, for a press made in
\* the idle state
ShortRightUps ==
    IF /\ gesture # None /\ gesture[1].event.button = 2 /\ gesture[1].idle
       /\ interactionMode = "none" /\ dragSnapshot # None
    THEN {e \in UpEvents: e.button = 2 /\ e.pt = dragSnapshot[1].startPoint}
    ELSE {}
\* the numbers of the subject's dots of the active category
ModeDotNumbers ==
    {CurrentAnnotations(World)[i].number : i \in
        {j \in 1..Len(CurrentAnnotations(World)):
            /\ CurrentAnnotations(World)[j].type = "dot"
            /\ CurrentAnnotations(World)[j].mode = activeMode}}
\* n is the largest of the numbers, 0 when there is none
IsMax(n, numbers) ==
    /\ \A m \in numbers: m <= n
    /\ IF numbers = {} THEN n = 0 ELSE n \in numbers
\* the release e adds exactly one annotation, a new dot of the active category
\* on the displayed page at the pointer
AddsOneDot(e) ==
    LET before == CurrentAnnotations(World)
        after == CurrentAnnotations(MouseUp(World, e))
    IN /\ Len(after) = Len(before) + 1
       /\ SubSeq(after, 1, Len(before)) = before
       /\ Last(after).type = "dot"
       /\ Last(after).id \notin IdsOf(before)
       /\ Last(after).mode = activeMode
       /\ Last(after).pageIndex = currentImageIndex
       /\ Last(after).x = e.pt.x /\ Last(after).y = e.pt.y
NewDot(e) == Last(CurrentAnnotations(MouseUp(World, e)))
\* a click without modifier: number max + 1, no elaboration
PlainClickRule(e) ==
    (~e.ctrlKey /\ ~e.shiftKey) =>
        /\ IsMax(NewDot(e).number - 1, ModeDotNumbers)
        /\ ~NewDot(e).isElaboration

\* C19 as stated: a short right click in idle adds one dot of the active
\* category on the displayed page; without modifier it gets number max + 1 and
\* is no elaboration, with the group modifier it gets number max and is an
\* elaboration, max being the largest number of the subject's dots of the
\* category
DotClickNumbering ==
    \A e \in ShortRightUps:
        /\ AddsOneDot(e)
        /\ PlainClickRule(e)
        /\ e.ctrlKey => /\ IsMax(NewDot(e).number, ModeDotNumbers)
                        /\ NewDot(e).isElaboration

\* C19 amended: as above, but a group click when the subject has no dot of the
\* category yet gives the dot number 1
DotClickNumberingAmended ==
    \A e \in ShortRightUps:
        /\ AddsOneDot(e)
        /\ PlainClickRule(e)
        /\ e.ctrlKey => /\ IF ModeDotNumbers = {} THEN NewDot(e).number = 1
                           ELSE IsMax(NewDot(e).number, ModeDotNumbers)
                        /\ NewDot(e).isElaboration
\* a group click has just added an elaboration dot carrying the number of an
\* earlier dot of its category
DotClickNumberingWitness ==
    /\ interactionMode = "none" /\ gesture = None
    /\ Len(CurrentAnnotations(World)) >= 2
    /\ LET anns == CurrentAnnotations(World)
           d == Last(anns)
       IN /\ d.type = "dot" /\ d.isElaboration
          /\ \E i \in 1..(Len(anns) - 1):
                /\ anns[i].type = "dot" /\ anns[i].mode = d.mode
                /\ anns[i].number = d.number /\ ~anns[i].isElaboration


\* the list positions of the subject's dots, and of those of the group of p
DotPositions ==
    {p \in 1..Len(CurrentAnnotations(World)): CurrentAnnotations(World)[p].type = "dot"}
GroupOf(p) ==
    {q \in DotPositions:
        /\ CurrentAnnotations(World)[q].mode = CurrentAnnotations(World)[p].mode
        /\ CurrentAnnotations(World)[q].number = CurrentAnnotations(World)[p].number}
LabelAt(p) == ScreenLabel(World, CurrentAnnotations(World)[p])

\* C20: in every group of dots with the same mode and number, the labels are
\* the number for the dot of lowest id and the number followed by a, b, ... for
\* the next ones in ascending id order; the label on the screen is the one of
\* the export, and no two dots of a group carry the same label
DotLabelsDerived ==
    \A p \in DotPositions:
        LET anns == CurrentAnnotations(World)
        IN /\ LabelAt(p) = ExportLabel(CurrentStudent(World), anns[p])
           /\ LabelAt(p).number = anns[p].number
           /\ {LabelAt(q).suffix : q \in GroupOf(p)}
                 = {0} \cup {96 + i : i \in 1..(Cardinality(GroupOf(p)) - 1)}
           /\ \A q \in GroupOf(p):
                 /\ q # p => LabelAt(q) # LabelAt(p)
                 /\ anns[p].id < anns[q].id => LabelAt(p).suffix < LabelAt(q).suffix


\* the subject's stamps, by id
StampIds(anns) == {anns[i].id : i \in {j \in 1..Len(anns): anns[j].type = "stamp"}}
\* the snapshots that the stamps of id carry in a list
SnapshotsOf(anns, id) ==
    {anns[i].stampData : i \in {j \in 1..Len(anns): anns[j].id = id}}
SumOf(scores) ==
    scores.content + scores.communicative + scores.organisation + scores.language

\* C21: every stamp of the subject carries the scores the subject had when the
\* stamp was created, their sum, the grader and the date, whatever happened
\* since (score updates, moves, multi-moves, text updates, undo, redo)
StampSnapshotImmutable ==
    \A i \in 1..Len(CurrentAnnotations(World)):
        LET a == CurrentAnnotations(World)[i]
        IN a.type = "stamp" =>
              /\ a.id \in DOMAIN stamped
              /\ a.stampData.scores = stamped[a.id]
              /\ a.stampData.total = SumOf(stamped[a.id])
              /\ a.stampData.grader = "Teacher"
              /\ a.stampData.date = Today
\* a stamp on the page whose snapshot differs from the subject's scores, which
\* were updated after the stamp was made
StampSnapshotKeptWitness ==
    \E i \in 1..Len(CurrentAnnotations(World)):
        LET a == CurrentAnnotations(World)[i]
        IN /\ a.type = "stamp"
           /\ a.stampData.scores # CurrentStudent(World).scores
           /\ a.stampData.total = SumOf(a.stampData.scores)
           /\ a.stampData.total # SumOf(CurrentStudent(World).scores)


(***************************************************************************)
(* Subjects and sessions: merge, split, save, close, resume.               *)
(***************************************************************************)
\* a grading session of two subjects: two pages and one page
SessionStudents ==
    << [id |-> "s1", images |-> <<"page0", "page1">>, annotations |-> <<>>,
        scores |-> [content |-> 3, communicative |-> 2, organisation |-> 1,
                    language |-> 0]],
       [id |-> "s2", images |-> <<"page2">>, annotations |-> <<>>,
        scores |-> ZeroScores] >>
\* ids of subjects: Date.now() + Math.random(), never one that is in use
StudentIds == {"s1", "s2", "s3", "s4", "s5", "s6", "s7", "s8"}
FreshStudentId(w) ==
    CHOOSE id \in StudentIds:
        /\ \A i \in 1..Len(w.students): w.students[i].id # id
        /\ \A k \in DOMAIN w.history: k[1] # id
        /\ \A sid \in DOMAIN w.savedSessions:
              \A i \in 1..Len(w.savedSessions[sid].students):
                 w.savedSessions[sid].students[i].id # id
        /\ \A k \in (DOMAIN w.processedCache) \cup (DOMAIN w.processedStore):
              k[2] # id
        /\ \A j \in w.jobs: j.key[2] # id
\* annotations with their page index shifted by n pages
ShiftPages(anns, n) ==
    [i \in 1..Len(anns) |-> [anns[i] EXCEPT !.pageIndex = @ + n]]
\* updated.splice(index, 1)
RemoveAt(seq, index) ==
    SubSeq(seq, 1, index - 1) \o SubSeq(seq, index + 1, Len(seq))

mergeNextStudent(w) ==
    IF w.currentStudentIndex >= Len(w.students) THEN w
    ELSE LET c == w.currentStudentIndex
             current == w.students[c]
             next == w.students[c + 1]
             adjustedAnnotations == ShiftPages(next.annotations, Len(current.images))
         IN [w EXCEPT !.students =
                RemoveAt([w.students EXCEPT ![c] =
                            [current EXCEPT
                                !.images = current.images \o next.images,
                                !.annotations = current.annotations
                                                \o adjustedAnnotations]],
                         c + 1)]

mergeWithPrevious(w) ==
    IF w.currentStudentIndex = 1 THEN w
    ELSE LET c == w.currentStudentIndex
             previous == w.students[c - 1]
             current == w.students[c]
             adjustedAnnotations == ShiftPages(current.annotations, Len(previous.images))
         IN [w EXCEPT
                !.students =
                    RemoveAt([w.students EXCEPT ![c - 1] =
                                [previous EXCEPT
                                    !.images = previous.images \o current.images,
                                    !.annotations = current.annotations
                                                    \o adjustedAnnotations]],
                             c),
                !.currentStudentIndex = c - 1,
                !.currentImageIndex = Len(previous.images)]

splitStudentAtPage(w) ==
    IF w.currentImageIndex = 0 THEN w
    ELSE LET c == w.currentStudentIndex
             current == w.students[c]
             p == w.currentImageIndex
             keptImages == SubSeq(current.images, 1, p)
             movedImages == SubSeq(current.images, p + 1, Len(current.images))
             keptAnnotations == SelectSeq(current.annotations,
                                          LAMBDA a: a.pageIndex < p)
             movedAnnotations ==
                ShiftPages(SelectSeq(current.annotations, LAMBDA a: a.pageIndex >= p),
                           0 - p)
             newStudent == [current EXCEPT !.id = FreshStudentId(w),
                                           !.images = movedImages,
                                           !.annotations = movedAnnotations,
                                           !.scores = ZeroScores]
         IN [w EXCEPT
                !.students =
                    SubSeq(w.students, 1, c - 1)
                    \o << [current EXCEPT !.images = keptImages,
                                          !.annotations = keptAnnotations],
                          newStudent >>
                    \o SubSeq(w.students, c + 1, Len(w.students)),
                !.currentStudentIndex = c + 1,
                !.currentImageIndex = 0]


\* the grading screen unmounts: the state of useAnnotationCanvas is dropped
Unmount(w) ==
    [w EXCEPT !.interactionMode = "none", !.dragSnapshot = None,
              !.creationDragCurrent = None, !.editingAnnotationId = NoId,
              !.newAnnotationId = NoId, !.selectedIds = {},
              !.selectionBox = None]

\* saveToStorage(): the session record written to the browser's storage
saveToStorage(w) ==
    IF w.sessionId = None THEN w  \* a fresh id is drawn; not reached while grading
    ELSE [w EXCEPT !.savedSessions =
            [sid \in (DOMAIN w.savedSessions) \cup {w.sessionId[1]} |->
                IF sid = w.sessionId[1]
                THEN [id |-> sid, students |-> w.students,
                      lastStudentIndex |-> w.currentStudentIndex,
                      lastImageIndex |-> w.currentImageIndex]
                ELSE w.savedSessions[sid]]]

\* resumeSession(session), then setStep('grading')
onResume(w, session) ==
    [w EXCEPT !.sessionId = Some(session.id),
              !.students = session.students,
              !.currentStudentIndex = session.lastStudentIndex,
              !.currentImageIndex = session.lastImageIndex,
              !.step = "grading"]

\* the exit button of the grading screen
confirmExit(w) ==
    LET saved == IF w.sessionId # None THEN saveToStorage(w) ELSE w
    IN [Unmount(saved) EXCEPT !.step = "setup", !.students = << >>,
                              !.history = << >>, !.currentStudentIndex = 1,
                              !.currentImageIndex = 0, !.sessionId = None]

\* the finish button of the grading screen
finishSession(w) == [Unmount(w) EXCEPT !.step = "report"]
\* the back button of the report screen
onBackToGrading(w) == [w EXCEPT !.step = "grading"]
\* the finish button of the report screen
onFinishSession(w) == [w EXCEPT !.step = "setup", !.students = << >>]

MergeNext == Advance(mergeNextStudent(World), GestureOther, NoLaw)
MergePrevious == Advance(mergeWithPrevious(World), GestureOther, NoLaw)
Split == Advance(splitStudentAtPage(World), GestureOther, NoLaw)
AutoSave ==
    /\ step \in {"grading", "report"}
    /\ Advance(saveToStorage(World), gesture, law)
ExitButton ==
    /\ step = "grading"
    /\ Advance(confirmExit(World), None, NoLaw)
FinishButton ==
    /\ step = "grading"
    /\ Advance(finishSession(World), None, NoLaw)
ReportBack ==
    /\ step = "report"
    /\ Advance(onBackToGrading(World), None, NoLaw)
ReportFinish ==
    /\ step = "report"
    /\ Advance(onFinishSession(World), None, NoLaw)
Resume ==
    /\ step = "setup"
    /\ \E sid \in DOMAIN savedSessions:
          Advance(onResume(World, savedSessions[sid]), None, NoLaw)

SessionInit == InitWith(SessionStudents)
\* the events the session model takes; those of the grading screen need it
\* to be mounted
SessionNext ==
    \/ step = "grading" /\ PointerDown
    \/ step = "grading" /\ PointerUp
    \/ step = "grading" /\ Undo
    \/ step = "grading" /\ Redo
    \/ step = "grading" /\ DeleteKey
    \/ step = "grading" /\ ArrowRight
    \/ step = "grading" /\ ArrowLeft
    \/ step = "grading" /\ MergeNext
    \/ step = "grading" /\ MergePrevious
    \/ step = "grading" /\ Split
    \/ ExitButton \/ FinishButton
    \/ AutoSave \/ ReportBack \/ ReportFinish \/ Resume
SessionSpec == SessionInit /\ [][SessionNext]_vars


\* the places (subject, position) of the annotations of a list of subjects
PlacesOf(sts) ==
    {<<i, p>> : i \in 1..Len(sts), p \in 1..MaxIds + 2} \cap
    UNION {{<<i, p>> : p \in 1..Len(sts[i].annotations)} : i \in 1..Len(sts)}
\* no id is carried by two annotations, in one subject or in two
UniqueIds(sts) ==
    \A a \in PlacesOf(sts), b \in PlacesOf(sts):
        a # b => sts[a[1]].annotations[a[2]].id # sts[b[1]].annotations[b[2]].id
\* the ids of the annotations of subject i
SubjectIds(sts, i) == IdsOf(sts[i].annotations)
\* w has in place of subjects i and i + 1 one subject with every annotation
\* of both
MergedKeepsAll(w, i) ==
    /\ Len(w.students) = Len(students) - 1
    /\ SubjectIds(w.students, i) = SubjectIds(students, i) \cup SubjectIds(students, i + 1)
    /\ Len(w.students[i].annotations)
          = Len(students[i].annotations) + Len(students[i + 1].annotations)

\* C22: no two annotations of the session share an id, so that every
\* annotation is once in one subject's list, and merging the displayed subject
\* with the next or with the previous one keeps every annotation of both
AnnotationsUnique ==
    /\ UniqueIds(students)
    /\ (step = "grading" /\ currentStudentIndex < Len(students)) =>
          MergedKeepsAll(mergeNextStudent(World), currentStudentIndex)
    /\ (step = "grading" /\ currentStudentIndex > 1) =>
          MergedKeepsAll(mergeWithPrevious(World), currentStudentIndex - 1)


\* C23: once the session is closed (the setup screen is shown), the history
\* map is empty, and resuming a saved session gives a state where undo and
\* redo find nothing to restore
ClosedSessionNoHistory ==
    step = "setup" =>
        /\ history = << >>
        /\ \A sid \in DOMAIN savedSessions:
              LET w == onResume(World, savedSessions[sid])
              IN performUndo(w) = w /\ performRedo(w) = w


(***************************************************************************)
(* Enhanced page images: the enhance effect and its jobs.                  *)
(***************************************************************************)
\* a job that writes its result under the key of the page displayed when it
\* returns, not under the key it was started for
JobCompleteDisplayedKey(w, j, saved) ==
    LET key == IF HasCurrentStudent(w) /\ w.sessionId # None
               THEN CacheKey(w) ELSE j.key
        processed == Sauvola(j.original[1])
        done == [w EXCEPT !.isProcessingImg = FALSE, !.jobs = @ \ {j}]
    IN IF j.key \in DOMAIN w.processedStore
       THEN [done EXCEPT !.processedCache = Put(@, key, w.processedStore[j.key])]
       ELSE IF j.original # None
       THEN [done EXCEPT
               !.processedStore = IF saved THEN Put(@, key, processed) ELSE @,
               !.processedCache = Put(@, key, processed)]
       ELSE done

\* the job j of the enhance effect returns: the stored image if there is one,
\* else the binarized original, which is stored (saved tells whether the
\* store took it) and cached; the in-flight flag falls
JobComplete(w, j, saved) ==
    LET key == j.key
        processed == Sauvola(j.original[1])
        done == [w EXCEPT !.isProcessingImg = FALSE, !.jobs = @ \ {j}]
    IN IF key \in DOMAIN w.processedStore
       THEN [done EXCEPT !.processedCache = Put(@, key, w.processedStore[key])]
       ELSE IF j.original # None
       THEN [done EXCEPT
               !.processedStore = IF saved THEN Put(@, key, processed) ELSE @,
               !.processedCache = Put(@, key, processed)]
       ELSE done

\* a failure that leaves the in-flight flag up
JobFailStuck(w, j) == [w EXCEPT !.jobs = @ \ {j}]

\* the job j throws (the image does not load, the store rejects): catch logs,
\* finally lowers the in-flight flag
JobFail(w, j) == [w EXCEPT !.isProcessingImg = FALSE, !.jobs = @ \ {j}]

\* the image the grading screen shows for the displayed page
displayImageSrc(w) ==
    IF w.enhanceMode /\ w.sessionId # None
       /\ CacheKey(w) \in DOMAIN w.processedCache
    THEN w.processedCache[CacheKey(w)]
    ELSE CurrentStudent(w).images[w.currentImageIndex + 1]

EnhanceButton ==
    /\ step = "grading"
    /\ Advance([World EXCEPT !.enhanceMode = ~@], GestureOther, law)
JobReturns == \E j \in jobs, saved \in BOOLEAN:
    Advance(JobComplete(World, j, saved), gesture, law)
JobThrows == \E j \in jobs:
    Advance(JobFail(World, j), gesture, law)

EnhanceNext ==
    \/ EnhanceButton
    \/ step = "grading" /\ PointerDown
    \/ step = "grading" /\ PointerUp
    \/ JobReturns \/ JobThrows
    \/ step = "grading" /\ ArrowRight
    \/ step = "grading" /\ ArrowLeft
    \/ step = "grading" /\ MergeNext
    \/ step = "grading" /\ MergePrevious
    \/ step = "grading" /\ Split
    \/ ExitButton \/ FinishButton
    \/ AutoSave \/ ReportBack \/ ReportFinish \/ Resume
EnhanceSpec == SessionInit /\ [][EnhanceNext]_vars


\* C24: a binarization job is in flight only for a key that has no cached
\* enhanced image, at most one job is in flight at any time (the in-flight
\* flag is up exactly then), so a populated key is never computed again.
EnhanceStartedOnce ==
    /\ Cardinality(jobs) <= 1
    /\ isProcessingImg <=> jobs # {}
    /\ \A j \in jobs: j.key \notin DOMAIN processedCache

\* a job is in flight for one page while another page's image is cached
EnhanceStartedOnceWitness ==
    /\ jobs # {}
    /\ processedCache # << >>
    /\ step = "grading" /\ enhanceMode


\* the original page image a key names in the present subjects, if any
SourcesOf(k) ==
    {students[i].images[k[3] + 1] :
        i \in {n \in 1..Len(students) :
                 students[n].id = k[2] /\ k[3] < Len(students[n].images)}}

CacheKept(k) ==
    k \in DOMAIN processedCache' /\ processedCache'[k] = processedCache[k]

CacheStep ==
    /\ \A k \in DOMAIN processedCache: CacheKept(k)
    /\ \A k \in (DOMAIN processedCache') \ (DOMAIN processedCache):
          \E j \in jobs: /\ j.key = k
                         /\ j.original # None
                         /\ processedCache'[k] = Sauvola(j.original[1])

CacheOwnSource ==
    /\ \A k \in DOMAIN processedCache:
          /\ k[1] = "session"
          /\ \A src \in SourcesOf(k): processedCache[k] = Sauvola(src)
    /\ \A j \in jobs: j.original # None =>
          \A src \in SourcesOf(j.key): src = j.original[1]
    /\ (step = "grading" /\ HasCurrentStudent(World)) =>
          LET original == CurrentStudent(World).images[currentImageIndex + 1]
          IN displayImageSrc(World) =
                IF enhanceMode /\ CacheKey(World) \in DOMAIN processedCache
                THEN Sauvola(original) ELSE original

\* C25: the result of a binarization is stored only under the key of the page
\* it was requested for, also when the page displayed has changed meanwhile:
\* a step never changes or removes an existing entry and adds an entry only
\* under the key of a job in flight, computed from that job's original; the
\* entry of a key is the enhanced image of the key's own page, which is what
\* the screen shows for it.
EnhancedUnderOwnKey == []CacheOwnSource /\ [][CacheStep]_vars

\* a page's enhanced image is cached while another page is displayed, whose
\* own enhanced image is cached and shown too
EnhancedUnderOwnKeyWitness ==
    /\ step = "grading" /\ enhanceMode /\ HasCurrentStudent(World)
    /\ CacheKey(World) \in DOMAIN processedCache
    /\ displayImageSrc(World) =
          Sauvola(CurrentStudent(World).images[currentImageIndex + 1])
    /\ \E k \in DOMAIN processedCache: k # CacheKey(World)


\* C26: when a binarization fails (job j throws), the failed attempt writes
\* no cache entry, the in-flight flag is lowered, annotations, history and
\* interaction mode stay as they were, and the page the job was for is shown
\* from its original image, also once the enhance effect has run again.
FailureLeavesNoTrace ==
    \A j \in jobs:
       LET failed == JobFail(World, j)
           after == EnhanceEffect(failed)
       IN /\ failed.processedCache = processedCache
          /\ failed.processedStore = processedStore
          /\ ~failed.isProcessingImg /\ failed.jobs = {}
          /\ after.processedCache = processedCache
          /\ after.isProcessingImg <=> after.jobs # {}
          /\ after.students = students
          /\ after.history = history
          /\ after.interactionMode = interactionMode
          /\ after.selectedIds = selectedIds
          /\ (step = "grading" /\ HasCurrentStudent(World)
                /\ CacheKey(World) = j.key) =>
                displayImageSrc(after) =
                   CurrentStudent(World).images[currentImageIndex + 1]

\* a job for the displayed page is in flight in the middle of a gesture on a
\* subject that has annotations and undo history
FailureLeavesNoTraceWitness ==
    /\ step = "grading" /\ enhanceMode /\ HasCurrentStudent(World)
    /\ \E j \in jobs: j.key = CacheKey(World)
    /\ CurrentStudent(World).annotations # << >>
    /\ history # << >>
    /\ interactionMode # "none"


(***************************************************************************)
(* processImageWithSauvola, pixel by pixel.  A pixel is its luminance, a   *)
(* grey level; the comparison with the threshold is decided exactly, in    *)
(* integers.                                                               *)
(***************************************************************************)
\* w, the window size
WindowSize == 41
\* k = 0.2, as a fraction
KNum == 1
KDen == 5
\* R
SauvolaR == 128
\* binVal
White == 255
Black == 0
whalf == WindowSize \div 2
\* brightest grey level of the images studied
MaxLuma == 3

Cells(width, height) == (0..(width - 1)) \X (0..(height - 1))

\* rowSum, rowSumSq after column x of row y
RECURSIVE rowSum(_, _, _)
rowSum(data, x, y) ==
    IF x < 0 THEN 0 ELSE rowSum(data, x - 1, y) + data[<< x, y >>]
RECURSIVE rowSumSq(_, _, _)
rowSumSq(data, x, y) ==
    IF x < 0 THEN 0
    ELSE rowSumSq(data, x - 1, y) + data[<< x, y >>] * data[<< x, y >>]
\* integral[y * width + x] = integral[(y - 1) * width + x] + rowSum
RECURSIVE integral(_, _, _)
integral(data, x, y) ==
    IF y < 0 THEN 0 ELSE integral(data, x, y - 1) + rowSum(data, x, y)
RECURSIVE integralSq(_, _, _)
integralSq(data, x, y) ==
    IF y < 0 THEN 0 ELSE integralSq(data, x, y - 1) + rowSumSq(data, x, y)

\* a window count that leaves out the last column and the last row
countOpen(x1, x2, y1, y2) == (x2 - x1) * (y2 - y1)
\* count
count(x1, x2, y1, y2) == (x2 - x1 + 1) * (y2 - y1 + 1)

localSum(data, x1, x2, y1, y2) ==
    LET valD == integral(data, x2, y2)
        valB == IF y1 > 0 THEN integral(data, x2, y1 - 1) ELSE 0
        valC == IF x1 > 0 THEN integral(data, x1 - 1, y2) ELSE 0
        valA == IF x1 > 0 /\ y1 > 0 THEN integral(data, x1 - 1, y1 - 1) ELSE 0
    IN valD - valB - valC + valA
localSumSq(data, x1, x2, y1, y2) ==
    LET valSqD == integralSq(data, x2, y2)
        valSqB == IF y1 > 0 THEN integralSq(data, x2, y1 - 1) ELSE 0
        valSqC == IF x1 > 0 THEN integralSq(data, x1 - 1, y2) ELSE 0
        valSqA == IF x1 > 0 /\ y1 > 0
                  THEN integralSq(data, x1 - 1, y1 - 1) ELSE 0
    IN valSqD - valSqB - valSqC + valSqA

\* Math.sqrt, rounded down
Isqrt(v) == CHOOSE r \in 0..v: r * r <= v /\ v < (r + 1) * (r + 1)
\* a > d * sqrt(v), for d >= 0 and v >= 0.  With q, m the quotient and the
\* remainder of a by d and r the root of v rounded down: q > r gives
\* a / d >= r + 1 > sqrt(v); q < r gives a / d < r <= sqrt(v); and for q = r,
\* (r + m / d)^2 > v is m * (2 * r * d + m) > (v - r^2) * d^2.
ExceedsRoot(a, d, v) ==
    IF d = 0 THEN a > 0
    ELSE IF a <= 0 THEN FALSE
    ELSE LET q == a \div d
             m == a % d
             r == Isqrt(v)
         IN IF q > r THEN TRUE
            ELSE IF q < r THEN FALSE
            ELSE m * (2 * r * d + m) > (v - r * r) * d * d
\* pixelLuma > threshold, where mean = sum / n,
\* variance = max(0, sumSq / n - mean^2), std = sqrt(variance) and
\* threshold = mean * (1 + k * (std / R - 1)).  With V = max(0, n * sumSq -
\* sum^2), std = sqrt(V) / n, and the comparison times n^2 * R * KDen reads
\* pixelLuma * n^2 * R * KDen - sum * (KDen - KNum) * n * R
\*     > KNum * sum * sqrt(V).
\* A count of 0 makes mean and threshold NaN or Infinity: nothing exceeds it.
AboveThreshold(pixelLuma, n, sum, sumSq) ==
    IF n = 0 THEN FALSE
    ELSE LET V == Max2(0, n * sumSq - sum * sum)
             a == pixelLuma * n * n * SauvolaR * KDen
                    - sum * (KDen - KNum) * n * SauvolaR
         IN ExceedsRoot(a, KNum * sum, V)

binVal(img, x, y) ==
    LET x1 == Max2(0, x - whalf)
        y1 == Max2(0, y - whalf)
        x2 == Min2(img.width - 1, x + whalf)
        y2 == Min2(img.height - 1, y + whalf)
    IN IF AboveThreshold(img.data[<< x, y >>], count(x1, x2, y1, y2),
                         localSum(img.data, x1, x2, y1, y2),
                         localSumSq(img.data, x1, x2, y1, y2))
       THEN White ELSE Black
\* out, the binarized pixels
processPixels(img) ==
    [c \in Cells(img.width, img.height) |-> binVal(img, c[1], c[2])]

\* widths and heights below, at and above the window size
ImageSizes ==
    {<< 1, 1 >>, << 2, 3 >>, << 40, 1 >>, << 41, 1 >>, << 42, 1 >>,
     << 43, 2 >>, << 1, 43 >>, << 43, 6 >>}
UniformImage(size, luma) ==
    [width |-> size[1], height |-> size[2],
     data |-> [c \in Cells(size[1], size[2]) |-> luma]]
\* a page of one luminance with a black pixel in its corner
SpottedImage(size, luma) ==
    [width |-> size[1], height |-> size[2],
     data |-> [c \in Cells(size[1], size[2]) |->
                  IF c = << 0, 0 >> THEN Black ELSE luma]]
TestImages ==
    {UniformImage(size, luma) : size \in ImageSizes, luma \in 0..MaxLuma}
    \cup {SpottedImage(size, luma) : size \in ImageSizes, luma \in 1..MaxLuma}

SauvolaInit ==
    /\ InitState(InitialStudents)
    /\ calc \in {[fn |-> "sauvola", img |-> img, out |-> None] :
                    img \in TestImages}
Binarize ==
    /\ calc.out = None
    /\ calc' = [calc EXCEPT !.out = Some(processPixels(calc.img))]
    /\ UNCHANGED << progVars, steps, gesture, law, stamped, typed >>
SauvolaNext == Binarize
SauvolaSpec == SauvolaInit /\ [][SauvolaNext]_vars

IsUniform(data) == \A c, d \in DOMAIN data: data[c] = data[d]

\* C27: the binarization of an image whose pixels all have the same
\* luminance gives every pixel the same output value, whatever the size of
\* the image, smaller than the 41-pixel window or not.
UniformImageUniformOutput ==
    (calc.out # None /\ IsUniform(calc.img.data)) => IsUniform(calc.out[1])

\* a uniform image wider than the window has been binarized, to white
UniformImageUniformOutputWitness ==
    /\ calc.out # None
    /\ IsUniform(calc.img.data)
    /\ calc.img.width > WindowSize /\ calc.img.height > 1
    /\ \A c \in DOMAIN calc.out[1]: calc.out[1][c] = White


\* C28: deleting many annotations with an empty list of ids changes nothing:
\* not the subjects, not the history (no snapshot is recorded), not the
\* selection or any other part of the state.
DeleteNoneChangesNothing ==
    LET w == deleteAnnotations(World, {})
    IN /\ w.students = students
       /\ w.history = history
       /\ w.historyRefs = historyRefs
       /\ w.selectedIds = selectedIds
       /\ w = World

\* the select tool with nothing selected, on a subject that has annotations
\* and undo history
DeleteNoneChangesNothingWitness ==
    /\ activeMode = "select" /\ selectedIds = {}
    /\ HasCurrentStudent(World)
    /\ CurrentStudent(World).annotations # << >>
    /\ history # << >>
    /\ deleteAnnotations(World, {}) = World


(***************************************************************************)
(* clamp and getRelativePoint on every number a division can produce: a    *)
(* number is finite (n, in hundredths), an infinity (inf = 1 or -1) or NaN.*)
(***************************************************************************)
Finite(n) == [nan |-> FALSE, inf |-> 0, n |-> n]
PlusInfinity == [nan |-> FALSE, inf |-> 1, n |-> 0]
MinusInfinity == [nan |-> FALSE, inf |-> -1, n |-> 0]
NaN == [nan |-> TRUE, inf |-> 0, n |-> 0]
\* a < b; false when either is NaN
Less(a, b) ==
    /\ ~a.nan /\ ~b.nan
    /\ \/ a.inf < b.inf
       \/ a.inf = 0 /\ b.inf = 0 /\ a.n < b.n
\* Math.min, Math.max: NaN when either argument is NaN
mathMin(a, b) == IF a.nan \/ b.nan THEN NaN ELSE IF Less(b, a) THEN b ELSE a
mathMax(a, b) == IF a.nan \/ b.nan THEN NaN ELSE IF Less(a, b) THEN b ELSE a
\* clamp
clampNumber(val, min, max) == mathMax(min, mathMin(max, val))
\* a / b for finite a and b, in hundredths, rounded down
divide(a, b) ==
    IF b # 0 THEN Finite((a * One) \div b)
    ELSE IF a > 0 THEN PlusInfinity
    ELSE IF a < 0 THEN MinusInfinity
    ELSE NaN
\* getRelativePoint(e), rect being canvasRef.current.getBoundingClientRect()
\* or None when the canvas is not mounted
getRelativePoint(e, rect) ==
    IF rect = None THEN [x |-> Finite(0), y |-> Finite(0)]
    ELSE [x |-> clampNumber(divide(e.clientX - rect[1].left, rect[1].width),
                            Finite(0), Finite(One)),
          y |-> clampNumber(divide(e.clientY - rect[1].top, rect[1].height),
                            Finite(0), Finite(One))]

\* largest bound and pointer coordinate studied
MaxCoord == 4
\* the canvas is 800px times the zoom wide; it is as high as its page image,
\* and 0 high while the image has not loaded
CanvasRects ==
    {None} \cup {Some([left |-> 1, top |-> 1, width |-> 2, height |-> h]) :
                    h \in {0, 2}}
ClientEvents == [clientX : 0..MaxCoord, clientY : 0..MaxCoord]
Numbers ==
    {Finite(n) : n \in (-1)..(MaxCoord + 1)}
    \cup {PlusInfinity, MinusInfinity, NaN}
Bounds == {Finite(n) : n \in 0..MaxCoord}

PointInit ==
    /\ InitState(InitialStudents)
    /\ calc \in
          {[fn |-> "clamp", val |-> v, min |-> lo, max |-> hi, out |-> None] :
              v \in Numbers, lo \in Bounds, hi \in Bounds}
          \cup {[fn |-> "point", e |-> e, rect |-> r, out |-> None] :
                  e \in ClientEvents, r \in CanvasRects}
ClampCall ==
    /\ calc.fn = "clamp" /\ calc.out = None
    /\ calc' = [calc EXCEPT
                  !.out = Some(clampNumber(calc.val, calc.min, calc.max))]
    /\ UNCHANGED << progVars, steps, gesture, law, stamped, typed >>
PointerConversion ==
    /\ calc.fn = "point" /\ calc.out = None
    /\ calc' = [calc EXCEPT !.out = Some(getRelativePoint(calc.e, calc.rect))]
    /\ UNCHANGED << progVars, steps, gesture, law, stamped, typed >>
PointNext == ClampCall \/ PointerConversion
PointSpec == PointInit /\ [][PointNext]_vars

InRange(v, lo, hi) == ~Less(v, lo) /\ ~Less(hi, v) /\ ~v.nan

\* C29: for min <= max, clamp gives a value of [min, max] and clamping that
\* value again gives it back; the pointer-to-page conversion gives
\* coordinates in [0, 1].
ClampInRange ==
    calc.out # None =>
       /\ (calc.fn = "clamp" /\ ~Less(calc.max, calc.min)) =>
             /\ InRange(calc.out[1], calc.min, calc.max)
             /\ clampNumber(calc.out[1], calc.min, calc.max) = calc.out[1]
       /\ calc.fn = "point" =>
             /\ InRange(calc.out[1].x, Finite(0), Finite(One))
             /\ InRange(calc.out[1].y, Finite(0), Finite(One))

\* the same for finite values and a canvas that has a height: this holds
ClampInRangeFinite ==
    calc.out # None =>
       /\ (calc.fn = "clamp" /\ ~Less(calc.max, calc.min) /\ ~calc.val.nan) =>
             /\ InRange(calc.out[1], calc.min, calc.max)
             /\ clampNumber(calc.out[1], calc.min, calc.max) = calc.out[1]
       /\ (calc.fn = "point" /\ (calc.rect = None \/ calc.rect[1].height > 0)) =>
             /\ InRange(calc.out[1].x, Finite(0), Finite(One))
             /\ InRange(calc.out[1].y, Finite(0), Finite(One))


\* start points of a creating gesture: in the page, at its corners and edges
CreationStarts ==
    {Point(0, 0), Point(2, 100), Point(98, 0), Point(100, 100)}
\* how far the pointer is from the start point at the release
CreationMoves ==
    {Point(0, 0), Point(-1, 1), Point(2, 0), Point(0, -2), Point(30, 20)}
\* the rectangles that w has on its displayed subject and w0 has not
CreatedBy(w0, w) ==
    LET old == CurrentStudent(w0).annotations
        anns == CurrentStudent(w).annotations
        added == {p \in (1..Len(anns)) \X (1..(MaxRects + 1)) :
                    /\ anns[p[1]].type = "rect"
                    /\ p[2] <= Len(anns[p[1]].rects)
                    /\ \/ p[1] > Len(old)
                       \/ p[2] > Len(old[p[1]].rects)}
    IN {anns[p[1]].rects[p[2]] : p \in added}
\* the pointer moved more than the threshold along an axis
MovedFar(a, b) ==
    Abs(b.x - a.x) > DragThreshold \/ Abs(b.y - a.y) > DragThreshold
IsBoundingBox(r, a, b) ==
    /\ r.x = Min2(a.x, b.x) /\ r.x + r.width = Max2(a.x, b.x)
    /\ r.y = Min2(a.y, b.y) /\ r.y + r.height = Max2(a.y, b.y)
\* v is the position of [0, One - size] nearest to the wanted one: the wanted
\* one if it is in the page, else the border it lies beyond
NearestInPage(v, wanted, size) ==
    /\ v >= 0 /\ v + size <= One
    /\ (wanted >= 0 /\ wanted + size <= One) => v = wanted
    /\ wanted < 0 => v = 0
    /\ wanted + size > One => v + size = One
\* the default rectangle with the click in its centre, moved into the page
IsDefaultCentred(r, click) ==
    /\ r.width = DefaultWidth /\ r.height = DefaultHeight
    /\ NearestInPage(r.x, click.x - DefaultWidth \div 2, DefaultWidth)
    /\ NearestInPage(r.y, click.y - DefaultHeight \div 2, DefaultHeight)
\* the default rectangle in the page, the click nearer to its top-left corner
\* than to its other corners where the page leaves room for that
IsDefaultNearTopLeft(r, click) ==
    /\ r.width = DefaultWidth /\ r.height = DefaultHeight
    /\ RectInPage(r)
    /\ click.x \in DefaultWidth..(One - DefaultWidth) =>
          click.x >= r.x /\ 2 * (click.x - r.x) < r.width
    /\ click.y \in DefaultHeight..(One - DefaultHeight) =>
          click.y >= r.y /\ 2 * (click.y - r.y) < r.height

\* the releases of a creating gesture: the left button, for the gesture as
\* started, with and without the extend modifier, and for the probed starts
CreationReleases ==
    IF interactionMode = "creating" /\ dragSnapshot # None
       /\ HasCurrentStudent(World)
    THEN {c \in
            {[start |-> sp,
              pt |-> Point(clamp(sp.x + d.x, 0, One), clamp(sp.y + d.y, 0, One)),
              shiftKey |-> sh] :
                sp \in CreationStarts \cup {dragSnapshot[1].startPoint},
                d \in CreationMoves, sh \in BOOLEAN} :
            c.shiftKey => c.start = dragSnapshot[1].startPoint}
    ELSE {}
ReleasedRects(c) ==
    LET w0 == [World EXCEPT !.dragSnapshot[1].startPoint = c.start]
        e == [button |-> 0, pt |-> c.pt, shiftKey |-> c.shiftKey,
              ctrlKey |-> FALSE]
    IN CreatedBy(w0, MouseUp(w0, e))

\* C30 as stated: a left pointer-up in creating mode gives the bounding box of
\* start and release when the pointer moved more than the threshold, else the
\* default rectangle with the click point near its top-left corner, moved
\* only as needed to stay in the page.
CreationGeometry ==
    \A c \in CreationReleases:
       /\ (c.shiftKey /\ editingAnnotationId # NoId)
             \/ Cardinality(ReleasedRects(c)) = 1
       /\ \A r \in ReleasedRects(c):
             IF MovedFar(c.start, c.pt) THEN IsBoundingBox(r, c.start, c.pt)
             ELSE IsDefaultNearTopLeft(r, c.start)

\* C30, amended: a left pointer-up in creating mode gives the bounding box of
\* start and release when the pointer moved more than the threshold along an
\* axis, else the default rectangle with the click point in its centre, moved
\* only as far as needed to stay in the page.
CreationGeometryAmended ==
    \A c \in CreationReleases:
       /\ (c.shiftKey /\ editingAnnotationId # NoId)
             \/ Cardinality(ReleasedRects(c)) = 1
       /\ \A r \in ReleasedRects(c):
             IF MovedFar(c.start, c.pt) THEN IsBoundingBox(r, c.start, c.pt)
             ELSE IsDefaultCentred(r, c.start)

\* a click has left its default rectangle and a drag its bounding box
CreationGeometryWitness ==
    /\ interactionMode = "none" /\ HasCurrentStudent(World)
    /\ \E i, j \in 1..Len(CurrentStudent(World).annotations):
          LET a == CurrentStudent(World).annotations[i]
              b == CurrentStudent(World).annotations[j]
          IN /\ a.type = "rect" /\ b.type = "rect"
             /\ a.rects[1] = Rect(10 - DefaultOffsetX, 10 - DefaultOffsetY,
                                  DefaultWidth, DefaultHeight)
             /\ b.rects[1] = Rect(10, 10, 40, 30)


PositiveRect(r) == r.width > 0 /\ r.height > 0
AllRectsPositive(w) ==
    \A s \in 1..Len(w.students):
       \A i \in 1..Len(w.students[s].annotations):
          LET a == w.students[s].annotations[i]
          IN a.type = "rect" =>
                \A j \in 1..Len(a.rects): PositiveRect(a.rects[j])

\* C31: every rectangle in the store has width > 0 and height > 0, in every
\* reachable state and after a pointer-move (resize) or a pointer-up (create,
\* extend) at any probed position, a release straight along one axis included.
RectsPositive ==
    /\ AllRectsPositive(World)
    /\ \A pt \in ProbePoints: AllRectsPositive(MouseMove(World, pt))
    /\ \A e \in ProbeUps: AllRectsPositive(MouseUp(World, e))


\* a creating gesture begun, from idle, by a left press with the extend
\* modifier on a rect annotation, and only pointer events since
ExtendGesture ==
    /\ gesture # None
    /\ gesture[1].idle /\ gesture[1].pure
    /\ gesture[1].event.button = 0 /\ gesture[1].event.shiftKey
    /\ gesture[1].event.annotationId # NoId
    /\ interactionMode = "creating" /\ dragSnapshot # None
    /\ editingAnnotationId = gesture[1].event.annotationId
\* w has one more rectangle at the end of annotation id than the present
\* world, and is the same in every other annotation
AppendsOneRect(w, id) ==
    LET old == CurrentStudent(World).annotations
        anns == CurrentStudent(w).annotations
    IN /\ Len(anns) = Len(old)
       /\ \A i \in 1..Len(old):
             IF old[i].id = id
             THEN /\ Len(anns[i].rects) = Len(old[i].rects) + 1
                  /\ SubSeq(anns[i].rects, 1, Len(old[i].rects)) = old[i].rects
                  /\ [anns[i] EXCEPT !.rects = old[i].rects] = old[i]
             ELSE anns[i] = old[i]
PushesPageBefore(w) ==
    /\ PastOf(w) = Append(PastOf(World), CurrentPageAnns(World))
    /\ \A k \in DOMAIN w.history:
          k # HistoryKey(World) => k \in DOMAIN history /\ w.history[k] = history[k]

\* C32: the release of a creating gesture begun with the extend modifier on
\* a rect annotation appends exactly one rectangle to the end of that
\* annotation's list, creates no annotation, and pushes exactly one history
\* entry, the page as it was before the append.
ExtendAppendsOne ==
    ExtendGesture =>
       \A e \in {u \in UpEvents: u.button = 0}:
          /\ AppendsOneRect(MouseUp(World, e), editingAnnotationId)
          /\ PushesPageBefore(MouseUp(World, e))

\* the same when the modifier is still held at the release
ExtendAppendsOneHeld ==
    ExtendGesture =>
       \A e \in {u \in UpEvents: u.button = 0 /\ u.shiftKey}:
          /\ AppendsOneRect(MouseUp(World, e), editingAnnotationId)
          /\ PushesPageBefore(MouseUp(World, e))


\* the editor is shown with isNew true
IsNewShown(w) ==
    EditorOpen(w) /\ w.editingAnnotationId = w.newAnnotationId
\* an annotation is flagged new but its editor is not shown: it was closed, or
\* the focus is on another annotation or on none
NewLapsed ==
    newAnnotationId # NoId /\ ~IsNewShown(World)
\* the step added a rect annotation by a release without the extend branch
CreatedRectAnnotation ==
    /\ nextId' = nextId + 1
    /\ HasCurrentStudent(World) /\ HasCurrentStudent(World')
    /\ \E i \in 1..Len(CurrentStudent(World').annotations):
          LET a == CurrentStudent(World').annotations[i]
          IN a.id = nextId /\ a.type = "rect"

\* C33: right after a non-extend creating gesture the new rect annotation is
\* focused and flagged new, and the editor is shown with isNew true only while
\* the focus has stayed on that annotation since: once its editor is no longer
\* shown for it, no step shows an editor with isNew true for it again.
NewOnlyWhileFocused ==
    [][/\ CreatedRectAnnotation =>
             editingAnnotationId' = nextId /\ newAnnotationId' = nextId
       /\ (NewLapsed /\ newAnnotationId' = newAnnotationId) =>
             ~IsNewShown(World')]_vars


\* the focus is on another annotation than the one flagged new, and a press on
\* the flagged one shows its editor with isNew true again
FocusBackIsNew ==
    /\ interactionMode = "none" /\ dragSnapshot = None
    /\ newAnnotationId # NoId /\ editingAnnotationId # newAnnotationId
    /\ editingAnnotationId # NoId
    /\ \E e \in DownEvents(World): IsNewShown(MouseDown(World, e))


\* a moving, resizing or extend-creating gesture is under way, begun from idle
\* by a left press on an annotation that is no longer in the subject's list
TargetGone ==
    /\ gesture # None /\ gesture[1].idle
    /\ gesture[1].event.button = 0
    /\ gesture[1].event.annotationId # NoId
    /\ interactionMode \in {"moving", "resizing", "creating"}
    /\ dragSnapshot # None
    /\ HasCurrentStudent(World)
    /\ FindIndex(gesture[1].anns, gesture[1].event.annotationId) # 0
    /\ FindIndex(CurrentStudent(World).annotations,
                 gesture[1].event.annotationId) = 0
    \* removed by a delete (its snapshot is in a past stack), not undone away
    /\ \E k \in DOMAIN history: \E i \in DOMAIN history[k].past:
          FindIndex(history[k].past[i], gesture[1].event.annotationId) # 0
    /\ \A k \in DOMAIN history: \A i \in DOMAIN history[k].future:
          FindIndex(history[k].future[i], gesture[1].event.annotationId) = 0

\* C34: when the annotation targeted by a moving, resizing or extend-creating
\* gesture has been deleted before the gesture ends, the pointer-moves and the
\* pointer-up that remain change neither the annotation list nor any history
\* stack, and the pointer-up ends in idle.
GoneTargetGestureInert ==
    TargetGone =>
       /\ \A pt \in Points:
             /\ MouseMove(World, pt).students = students
             /\ MouseMove(World, pt).history = history
       /\ \A e \in {u \in UpEvents: u.button = 0 /\ u.shiftKey = gesture[1].event.shiftKey}:
             /\ MouseUp(World, e).students = students
             /\ MouseUp(World, e).history = history
             /\ MouseUp(World, e).interactionMode = "none"


\* the annotations of the displayed subject, in any order
AnnotationSet(w) ==
    {CurrentAnnotations(w)[i] : i \in DOMAIN CurrentAnnotations(w)}
\* the delete handlers: the Delete key, and the editor's trash button and its
\* Escape on a new annotation when the editor is mounted
DeleteResults ==
    {KeyDelete(World)}
      \cup (IF EditorOpen(World) THEN {EditorDelete(World), EditorEscape(World)}
            ELSE {})
RemovesSome(w) == Len(CurrentAnnotations(w)) < Len(CurrentAnnotations(World))

\* C35: a delete that removes at least one annotation, whatever page is
\* displayed, records a snapshot covering every removed annotation: one undo
\* right after it gives back the subject's annotations as they were before
DeleteThenUndoRestores ==
    \A w \in DeleteResults:
       RemovesSome(w) => AnnotationSet(performUndo(w)) = AnnotationSet(World)


\* the editor is open on a page other than the one the last text update, whose
\* idle timer still runs, was made on
TypedElsewhere ==
    /\ EditorOpen(World)
    /\ historyRefs.typingTimeout
    /\ typed # None
    /\ typed[1] # HistoryKey(World)

\* C36: the idle/typing state of text updates is kept per page key: the first
\* update on a page after the user switched to it pushes the page's list onto
\* that page's past stack, even inside the idle window of an update made on
\* another page
CoalescingPerPage ==
    TypedElsewhere =>
       \A t \in Texts:
          PastOf(updateAnnotation(World, editingAnnotationId, t))
             = Append(PastOf(World), CurrentPageAnns(World))


\* C37: after an update call that changes an annotation of the displayed
\* page, the page's future stack is empty, also when the update arrives inside
\* the idle window of an earlier update with an undo or a redo in between: no
\* redo can overwrite an edit made after the undo
UpdateClearsFuture ==
    EditorOpen(World) =>
       \A t \in Texts:
          LET w == updateAnnotation(World, editingAnnotationId, t)
          IN w.students # students => FutureOf(w) = <<>>


\* every annotation of the snapshot is one of page p
SnapshotOfPage(snapshot, p) ==
    \A i \in DOMAIN snapshot: snapshot[i].pageIndex = p

\* C38: in every reachable state, every snapshot held in the past or the
\* future stack of the key (subject, page p) holds only annotations whose
\* pageIndex is p, also when arrow-key navigation happens between the
\* pointer-down and the pointer-up of a move, resize or multi-move gesture
SnapshotsFiledUnderOwnPage ==
    \A k \in DOMAIN history:
       /\ \A i \in DOMAIN history[k].past: SnapshotOfPage(history[k].past[i], k[2])
       /\ \A i \in DOMAIN history[k].future: SnapshotOfPage(history[k].future[i], k[2])


(***************************************************************************)
(* Progress of the enhance effect.  The user's events are budgeted; the    *)
(* return of a job in flight is not, and it is weakly fair: the promise of *)
(* an async job that does not throw resolves on the event loop.            *)
(***************************************************************************)
\* a render after which the enhance effect does not run
RerenderWithoutEffect(w) == w
\* the render that follows the job's setProcessedCache and
\* setIsProcessingImg(false): both are dependencies of the enhance effect,
\* which runs again
Rerender(w) == EnhanceEffect(w)

\* the job in flight returns without throwing
JobSucceeds == \E j \in jobs, saved \in BOOLEAN:
    /\ Commit(Rerender(JobComplete(World, j, saved)))
    /\ UNCHANGED << steps, gesture, law, stamped, typed, calc >>

EnhanceLiveNext ==
    \/ EnhanceButton
    \/ step = "grading" /\ ArrowRight
    \/ step = "grading" /\ ArrowLeft
    \/ JobSucceeds
EnhanceLiveSpec ==
    SessionInit /\ [][EnhanceLiveNext]_vars /\ WF_vars(JobSucceeds)

\* the keys of the session's pages
PageKeys ==
    {<< SessionId, SessionStudents[i].id, p >> :
        i \in DOMAIN SessionStudents, p \in 0..1} 
\* enhance mode is on and the page of key k is displayed
Displayed(k) ==
    /\ enhanceMode /\ sessionId # None /\ HasCurrentStudent(World)
    /\ CacheKey(World) = k
Cached(k) == k \in DOMAIN processedCache

\* C39: while enhance mode stays on and the displayed page stays the same,
\* and jobs do not throw, the cache eventually holds an enhanced image for the
\* displayed page's key, also when the job of a page displayed before was in
\* flight when the user came to this page
EnhancedEventually ==
    \A k \in PageKeys: Displayed(k) ~> (Cached(k) \/ ~Displayed(k))
\* the user has come to a page with no enhanced image while the job of
\* another page is in flight
EnhancedEventuallyWitness ==
    /\ \E k \in PageKeys: Displayed(k) /\ ~Cached(k)
    /\ isProcessingImg
    /\ \E j \in jobs: j.key # CacheKey(World)


\* C40: after the job of a key has failed, the render that follows starts no
\* new job for the same key: without a change of page, subject or enhance
\* mode by the user a failing page is not tried again
NoRetryAfterFailure ==
    \A j \in jobs:
       \A n \in EnhanceEffect(JobFail(World, j)).jobs: n.key # j.key

=============================================================================
